---- MODULE Spec2Model ----
(***************************************************************************)
(* The resumable parallel crawl pipeline of api_crawler_gpt.py:            *)
(* load_urls_from_csv, init_temp_csv, crawl_single_api,                    *)
(* write_result_to_csv and the driver batch_crawl_large_scale, together    *)
(* with the ThreadPoolExecutor / as_completed machinery the driver uses.   *)
(*                                                                         *)
(* Text is modelled as a sequence of string tokens (a "cell"): the empty   *)
(* string is << >>, a blank is the token " ", and concatenation is \o.     *)
(* A CSV file is a record [exists, lines]; a line is a sequence of cells   *)
(* and the first line of a file is its header.                             *)
(***************************************************************************)
EXTENDS Integers, Sequences, FiniteSets, TLC

\* ---------------------------------------------------------------- bounds
MaxManifest == 2        \* data rows of the input manifest
MaxRuns == 2            \* process starts (first run plus restarts)
MaxPool == 4            \* work items of the executor specification
MaxSources == 2         \* rows of the csv file process_sources reads

\* ------------------------------------------------------ program constants
MAX_RETRIES == 2
MAX_WORKERS == 3
RETRY_DELAY == 2

\* ------------------------------------------------------------- text layer
DigitChars == <<"0", "1", "2", "3", "4", "5", "6", "7", "8", "9">>

\* str(n) for n >= 0, as the f-strings and the csv writer format an int
RECURSIVE IntToStr(_)
IntToStr(n) ==
    IF n < 10 THEN <<DigitChars[n + 1]>>
    ELSE IntToStr(n \div 10) \o <<DigitChars[(n % 10) + 1]>>

RECURSIVE lstrip(_)
lstrip(s) == IF s # << >> /\ Head(s) = " " THEN lstrip(Tail(s)) ELSE s

RECURSIVE rstrip(_)
rstrip(s) ==
    IF s # << >> /\ s[Len(s)] = " " THEN rstrip(SubSeq(s, 1, Len(s) - 1)) ELSE s

\* str.strip()
strip(s) == rstrip(lstrip(s))

\* the literals the code compares with and writes
SUCCESS == <<"success">>
FAILED == <<"failed">>
EMPTY == << >>

\* ------------------------------------------------------------- CSV layer
get_csv_columns ==
    <<"original_row_num", "url", "crawl_time", "crawl_status", "error_msg",
      "api", "package", "language",
      "deprecated_in", "removed_in", "replaced_by", "change_type", "reason",
      "source">>

NoFile == [exists |-> FALSE, lines |-> << >>]
FileOf(ls) == [exists |-> TRUE, lines |-> ls]

\* csv.DictWriter.writeheader: one cell per column name
HeaderLine(columns) == [k \in 1..Len(columns) |-> <<columns[k]>>]

\* csv.DictReader: fieldnames is the first line, the rows are the others
fieldnames(file) == IF file.lines = << >> THEN << >> ELSE Head(file.lines)
DataLines(file) == IF file.lines = << >> THEN << >> ELSE Tail(file.lines)
HasField(names, col) == \E k \in 1..Len(names) : names[k] = <<col>>
ColumnOf(names, col) == CHOOSE k \in 1..Len(names) : names[k] = <<col>>
\* row[col]; a line shorter than the header reads as restval None, here EMPTY
Field(names, line, col) ==
    IF ColumnOf(names, col) <= Len(line) THEN line[ColumnOf(names, col)] ELSE EMPTY

\* a dict as a function from its keys; d.update(e)
Update(d, e) ==
    [k \in (DOMAIN d) \cup (DOMAIN e) |-> IF k \in DOMAIN e THEN e[k] ELSE d[k]]

\* how the csv writer renders a value of the result dict in a cell
ToCell(col, v) == IF col = "original_row_num" THEN IntToStr(v) ELSE v

\* (variant: the keys outside csv_columns are not filtered out, the row gets
\* one more cell when the record has such a key)
FilteredResultAllKeys(result) ==
    [k \in 1..Len(get_csv_columns) |->
        IF get_csv_columns[k] \in DOMAIN result
        THEN ToCell(get_csv_columns[k], result[get_csv_columns[k]])
        ELSE EMPTY]
    \o (IF \E key \in DOMAIN result : \A k \in 1..Len(get_csv_columns) :
                                         get_csv_columns[k] # key
        THEN <<<<"extra">>>> ELSE << >>)

\* {k: result.get(k, "") for k in csv_columns}, rendered as one line
FilteredResult(result) ==
    [k \in 1..Len(get_csv_columns) |->
        IF get_csv_columns[k] \in DOMAIN result
        THEN ToCell(get_csv_columns[k], result[get_csv_columns[k]])
        ELSE EMPTY]

\* (variant: writer.writerow is called twice)
write_result_twice(result, file) ==
    FileOf(file.lines \o <<FilteredResult(result), FilteredResult(result)>>)

\* write_result_to_csv: open(csv_file, "a") and writer.writerow; opening for
\* append creates a missing file
write_result_to_csv(result, file) ==
    FileOf(file.lines \o <<FilteredResult(result)>>)

\* (variant: the file is opened with "w" whether it exists or not)
init_temp_csv_truncate(file) == FileOf(<<HeaderLine(get_csv_columns)>>)

\* (variant: the file is opened with "a" and the header is written whether
\* it exists or not)
init_temp_csv_append_header(file) ==
    IF file.exists THEN FileOf(Append(file.lines, HeaderLine(get_csv_columns)))
    ELSE FileOf(<<HeaderLine(get_csv_columns)>>)

\* init_temp_csv: create the file with the header row unless it exists
init_temp_csv(file) ==
    IF ~file.exists THEN FileOf(<<HeaderLine(get_csv_columns)>>) ELSE file

\* ------------------------------------------------------ load_urls_from_csv
\* (variant: every row of the temp file counts as completed, not only the
\* success rows)
completed_urls_any_status(temp) ==
    IF temp.exists
       /\ HasField(fieldnames(temp), "url")
       /\ HasField(fieldnames(temp), "crawl_status")
    THEN {strip(Field(fieldnames(temp), DataLines(temp)[k], "url")) :
            k \in 1..Len(DataLines(temp))}
    ELSE {}

\* first step: the urls of the success rows of the temp file
completed_urls(temp) ==
    IF temp.exists
       /\ HasField(fieldnames(temp), "url")
       /\ HasField(fieldnames(temp), "crawl_status")
    THEN {strip(Field(fieldnames(temp), DataLines(temp)[k], "url")) :
            k \in {j \in 1..Len(DataLines(temp)) :
                     Field(fieldnames(temp), DataLines(temp)[j], "crawl_status")
                        = SUCCESS}}
    ELSE {}

\* (variant: the row number counts the rows that were kept)
RECURSIVE FilterRowsRenumbered(_, _, _, _)
FilterRowsRenumbered(names, rows, row_num, completed) ==
    IF rows = << >> THEN << >>
    ELSE LET url == strip(Field(names, Head(rows), "url"))
         IN IF url # EMPTY /\ url \notin completed
            THEN <<[url |-> url, original_row_num |-> row_num]>>
                 \o FilterRowsRenumbered(names, Tail(rows), row_num + 1, completed)
            ELSE FilterRowsRenumbered(names, Tail(rows), row_num, completed)

\* second step: the loop over the manifest rows, row_num counting from 2
RECURSIVE FilterRows(_, _, _, _)
FilterRows(names, rows, row_num, completed) ==
    IF rows = << >> THEN << >>
    ELSE LET url == strip(Field(names, Head(rows), "url"))
             rest == FilterRows(names, Tail(rows), row_num + 1, completed)
         IN IF url # EMPTY /\ url \notin completed
            THEN <<[url |-> url, original_row_num |-> row_num]>> \o rest
            ELSE rest

\* TRUE when the function leaves through sys.exit(1)
LoadFails(csv_file) == ~csv_file.exists \/ ~HasField(fieldnames(csv_file), "url")

\* (variant: the temp file is not consulted, nothing is skipped)
load_urls_no_resume(csv_file, temp) ==
    FilterRows(fieldnames(csv_file), DataLines(csv_file), 2, {})

load_urls_from_csv(csv_file, temp) ==
    FilterRows(fieldnames(csv_file), DataLines(csv_file), 2, completed_urls(temp))

\* -------------------------------------------------------- extraction client
\* What one visit_tool.call(crawl_params) can do, seen from crawl_single_api:
\*   raise   the call raises (the service call failed), str(e) = msg
\*   blank   it returns a string that is empty after strip()
\*   garbage it returns text json.loads rejects
\*   object  it returns a JSON object, parsed to the dict body
NoBody == [k \in {"api"} |-> EMPTY]
RaiseReply == [kind |-> "raise", msg |-> <<"service error">>, body |-> NoBody]
BlankReply == [kind |-> "blank", msg |-> EMPTY, body |-> NoBody]
GarbageReply == [kind |-> "garbage", msg |-> EMPTY, body |-> NoBody]
ObjectReply(d) == [kind |-> "object", msg |-> EMPTY, body |-> d]

\* a reply with the fields the prompt asks for
PlainBody == [api |-> <<"fn">>, change_type |-> <<"API Removal">>, source |-> <<"doc">>]
\* a reply that also carries a key "url"
UrlBody(u) == [api |-> <<"fn">>, change_type |-> <<"API Removal">>, source |-> <<"doc">>,
               url |-> u]

\* str(e) of the exception an unsuccessful attempt ends with
ErrorText(reply) ==
    CASE reply.kind = "raise" -> reply.msg
      [] reply.kind = "blank" -> <<"empty result string">>      \* ValueError, line 116
      [] OTHER -> <<"Expecting value">>                         \* json.JSONDecodeError

\* the body of json.dumps({"error": "无法读取网页内容"})
ErrorBody == [error |-> <<"cannot read page">>]

\* a reply whose object has keys named like the bookkeeping fields of the
\* result dict
StatusBody == [api |-> <<"status fn">>, crawl_status |-> <<"partial">>,
               error_msg |-> <<"model note">>]

\* The strings visit_tool.call can return, as cells: a JSON document is one
\* token, and blanks may surround it. json.loads accepts a document with
\* blanks around it and rejects every other text.
PlainJson == <<"{api, change_type, source}">>
UrlJson == <<"{api, change_type, source, url}">>
ErrorJson == <<"{error}">>
StatusJson == <<"{api, crawl_status, error_msg}">>
IsJson(result_str) == strip(result_str) \in {PlainJson, UrlJson, ErrorJson, StatusJson}
json_loads(result_str) ==
    CASE strip(result_str) = PlainJson -> PlainBody
      [] strip(result_str) = UrlJson -> UrlBody(<<"b">>)
      [] strip(result_str) = StatusJson -> StatusBody
      [] OTHER -> ErrorBody

\* (variant: an empty or unparsable string is taken as an object without
\* fields)
ReplyOfLenient(result_str) ==
    IF IsJson(result_str) THEN ObjectReply(json_loads(result_str))
    ELSE ObjectReply(NoBody)

\* lines 115-119: what crawl_single_api makes of the string the call returned
ReplyOf(result_str) ==
    IF strip(result_str) = EMPTY THEN BlankReply          \* not result_str.strip()
    ELSE IF IsJson(result_str) THEN ObjectReply(json_loads(result_str))
    ELSE GarbageReply

\* VisitGPT4o.read_webpage: the text of the page, or "" from each of its
\* except branches (timeout, request error, any other error)
read_webpage(page) == IF page.outcome = "ok" THEN page.text ELSE EMPTY

\* VisitGPT4o.call: page is what the fetch of the url does, llm what
\* self.llm(messages) does when it is reached (it raises, or returns a string)
VisitGPT4o_call(page, llm) ==
    IF read_webpage(page) = EMPTY            \* if not webpage_content
    THEN ReplyOf(ErrorJson)
    ELSE llm

\* --------------------------------------------------------- crawl_single_api
\* the result dict built before the retry loop
crawl_result_init(url, original_row_num) ==
    [original_row_num |-> original_row_num,
     url |-> url,
     crawl_time |-> <<"now">>,
     crawl_status |-> FAILED,
     error_msg |-> EMPTY]

\* f"第{retry+1}次重试失败：{str(e)}"
AttemptErrorMsg(retry, reply) ==
    <<"attempt ">> \o IntToStr(retry + 1) \o <<" failed: ">> \o ErrorText(reply)

\* f"超过{MAX_RETRIES}次重试：{result['error_msg']}"
ExhaustedErrorMsg(error_msg) ==
    <<"exceeded ">> \o IntToStr(MAX_RETRIES) \o <<" retries: ">> \o error_msg

\* (variant: the loop is `for retry in range(MAX_RETRIES + 1)`)
crawl_attempt_extra(t, reply) ==
    IF reply.kind = "object"
    THEN [t EXCEPT !.calls = @ + 1,
                   !.result = Update(Update(@, reply.body),
                                     [crawl_status |-> SUCCESS, error_msg |-> EMPTY]),
                   !.state = "finished"]
    ELSE LET msg == AttemptErrorMsg(t.calls, reply)
         IN IF t.calls + 1 < MAX_RETRIES + 1
            THEN [t EXCEPT !.calls = @ + 1,
                           !.errors = Append(@, ErrorText(reply)),
                           !.result = Update(@, [error_msg |-> msg]),
                           !.sleeps = Append(@, RETRY_DELAY)]
            ELSE [t EXCEPT !.calls = @ + 1,
                           !.errors = Append(@, ErrorText(reply)),
                           !.result = Update(@, [error_msg |-> ExhaustedErrorMsg(msg)]),
                           !.state = "finished"]

\* (variant: line 122, result["error_msg"] = "", is missing)
crawl_attempt_keep_msg(t, reply) ==
    IF reply.kind = "object"
    THEN [t EXCEPT !.calls = @ + 1,
                   !.result = Update(Update(@, reply.body), [crawl_status |-> SUCCESS]),
                   !.state = "finished"]
    ELSE LET msg == AttemptErrorMsg(t.calls, reply)
         IN IF t.calls + 1 < MAX_RETRIES
            THEN [t EXCEPT !.calls = @ + 1,
                           !.errors = Append(@, ErrorText(reply)),
                           !.result = Update(@, [error_msg |-> msg]),
                           !.sleeps = Append(@, RETRY_DELAY)]
            ELSE [t EXCEPT !.calls = @ + 1,
                           !.errors = Append(@, ErrorText(reply)),
                           !.result = Update(@, [error_msg |-> ExhaustedErrorMsg(msg)]),
                           !.state = "finished"]

\* (variant: lines 121-122 come before line 120, result.update(api_data))
crawl_attempt_status_first(t, reply) ==
    IF reply.kind = "object"
    THEN [t EXCEPT !.calls = @ + 1,
                   !.result = Update(Update(@, [crawl_status |-> SUCCESS,
                                                error_msg |-> EMPTY]),
                                     reply.body),
                   !.state = "finished"]
    ELSE LET msg == AttemptErrorMsg(t.calls, reply)
         IN IF t.calls + 1 < MAX_RETRIES
            THEN [t EXCEPT !.calls = @ + 1,
                           !.errors = Append(@, ErrorText(reply)),
                           !.result = Update(@, [error_msg |-> msg]),
                           !.sleeps = Append(@, RETRY_DELAY)]
            ELSE [t EXCEPT !.calls = @ + 1,
                           !.errors = Append(@, ErrorText(reply)),
                           !.result = Update(@, [error_msg |-> ExhaustedErrorMsg(msg)]),
                           !.state = "finished"]

\* (variant: line 128, `if retry < MAX_RETRIES - 1`, is missing)
crawl_attempt_sleep_always(t, reply) ==
    IF reply.kind = "object"
    THEN [t EXCEPT !.calls = @ + 1,
                   !.result = Update(Update(@, reply.body),
                                     [crawl_status |-> SUCCESS, error_msg |-> EMPTY]),
                   !.state = "finished"]
    ELSE LET msg == AttemptErrorMsg(t.calls, reply)
         IN IF t.calls + 1 < MAX_RETRIES
            THEN [t EXCEPT !.calls = @ + 1,
                           !.errors = Append(@, ErrorText(reply)),
                           !.result = Update(@, [error_msg |-> msg]),
                           !.sleeps = Append(@, RETRY_DELAY)]
            ELSE [t EXCEPT !.calls = @ + 1,
                           !.errors = Append(@, ErrorText(reply)),
                           !.result = Update(@, [error_msg |-> ExhaustedErrorMsg(msg)]),
                           !.sleeps = Append(@, RETRY_DELAY),
                           !.state = "finished"]

\* One pass of the body of `for retry in range(MAX_RETRIES)`, entered with
\* retry = t.calls, followed by the code after the loop when the loop ends.
\* t is the invocation's local state: calls counts the visit_tool.call made,
\* errors keeps str(e) of each exception caught so far.
crawl_attempt(t, reply) ==
    IF reply.kind = "object"
    THEN [t EXCEPT !.calls = @ + 1,
                   !.result = Update(Update(@, reply.body),
                                     [crawl_status |-> SUCCESS, error_msg |-> EMPTY]),
                   !.state = "finished"]
    ELSE LET msg == AttemptErrorMsg(t.calls, reply)
         IN IF t.calls + 1 < MAX_RETRIES
            THEN [t EXCEPT !.calls = @ + 1,
                           !.errors = Append(@, ErrorText(reply)),
                           !.result = Update(@, [error_msg |-> msg]),
                           !.sleeps = Append(@, RETRY_DELAY)]
            ELSE [t EXCEPT !.calls = @ + 1,
                           !.errors = Append(@, ErrorText(reply)),
                           !.result = Update(@, [error_msg |-> ExhaustedErrorMsg(msg)]),
                           !.state = "finished"]

\* no exception has left crawl_single_api
NoFault == [raised |-> FALSE, text |-> EMPTY]

\* executor.submit(crawl_single_api, url, original_row_num): a queued future;
\* fetched counts the calls of this invocation in which the page was read,
\* fault is the exception the invocation ended with, if it did, sleeps the
\* arguments of the time.sleep calls it has made, service_calls the number of
\* chat.completions.create calls made for it
submit(url_info) ==
    [state |-> "queued", calls |-> 0, errors |-> << >>, overran |-> FALSE,
     fetched |-> 0, fault |-> NoFault, sleeps |-> << >>, service_calls |-> 0,
     result |-> crawl_result_init(url_info.url, url_info.original_row_num)]

\* ThreadPoolExecutor(max_workers=MAX_WORKERS): the work queue is first in,
\* first out, and a queued item starts when one of the workers is free
Running(fs) == {i \in DOMAIN fs : fs[i].state \in {"running", "hung"}}
\* (variant: a thread per submitted item, no cap on the workers)
CanStartUncapped(fs, i) ==
    /\ fs[i].state = "queued"
    /\ \A j \in DOMAIN fs : j < i => fs[j].state # "queued"
CanStart(fs, i) ==
    /\ fs[i].state = "queued"
    /\ \A j \in DOMAIN fs : j < i => fs[j].state # "queued"
    /\ Cardinality(Running(fs)) < MAX_WORKERS

\* (variant: a finished future is handed to the loop again)
as_completed_again(fs, done) == {i \in DOMAIN fs : fs[i].state = "finished"}
\* (variant: the loop takes the futures in submission order and waits for each)
as_completed_in_order(fs, done) ==
    {i \in DOMAIN fs : /\ fs[i].state = "finished"
                       /\ i \notin done
                       /\ \A j \in DOMAIN fs : j < i => j \in done}

\* (variant: only the futures whose task returned success are handed on)
as_completed_skip_failed(fs, done) ==
    {i \in DOMAIN fs : /\ fs[i].state = "finished"
                       /\ i \notin done
                       /\ fs[i].result.crawl_status = SUCCESS}

\* as_completed(future_tasks): the futures it can yield next, given the ones
\* it has yielded
as_completed(fs, done) == {i \in DOMAIN fs : fs[i].state = "finished" /\ i \notin done}

\* future.result(timeout=60) on a future: the value the task returned, the
\* exception the task ended with, or TimeoutError (whose str is empty) when
\* the task has not returned in time
future_result(f) ==
    IF f.state = "finished" /\ ~f.fault.raised
    THEN [raised |-> FALSE, value |-> f.result, error |-> EMPTY]
    ELSE [raised |-> TRUE, value |-> f.result, error |-> f.fault.text]

\* (variant: the record does not say which work item it is about)
error_result_anonymous(url_info, error) ==
    [original_row_num |-> 0,
     url |-> EMPTY,
     crawl_time |-> <<"now">>,
     crawl_status |-> FAILED,
     error_msg |-> <<"thread exception: ">> \o error]

\* lines 209-215: the record the loop writes when future.result raises
error_result(url_info, error) ==
    [original_row_num |-> url_info.original_row_num,
     url |-> url_info.url,
     crawl_time |-> <<"now">>,
     crawl_status |-> FAILED,
     error_msg |-> <<"thread exception: ">> \o error]     \* f"线程执行异常：{str(e)}"

\* (variant: the loop is left after the first future)
LoopDoneEarly(fs, done) == done # {}

\* the for loop over as_completed ends when every future was yielded
LoopDone(fs, done) == done = DOMAIN fs

\* --------------------------------------------------------------- the state
VARIABLES
    input_csv,        \* the manifest file
    temp_csv,         \* the durable log
    output_csv,       \* the final artifact
    pc,               \* where the driver process is
    run,              \* number of process starts so far
    all_urls,         \* the pending work items of this run
    futures,          \* future_tasks: one future per pending work item
    yielded,          \* the futures as_completed has handed to the loop
    completed_count, success_count, fail_count,
    log_at_start,     \* history: the durable log as load_urls_from_csv read it
    appended,         \* history: <<future, line>> for each append of this run
    promotions,       \* history: renames of the log to the final path, this run
    killed,           \* history: whether the previous process was killed, and
                      \*          the durable log at that moment
    initialized,      \* history: init_temp_csv has run in this run
    csv_lock,         \* csv_lock: the threads inside `with lock`, and the
                      \*           future whose row is being written
    llm_call,         \* one invocation of the llm method of a visit tool
    processor         \* one call of EnhancedLodashDocProcessor.process_sources

vars == <<input_csv, temp_csv, output_csv, pc, run, all_urls, futures, yielded,
          completed_count, success_count, fail_count, log_at_start, appended,
          promotions, killed, initialized, csv_lock, llm_call, processor>>

files == <<input_csv, temp_csv, output_csv>>
counters == <<completed_count, success_count, fail_count>>

\* -------------------------------------------------------------- the inputs
Cells == {<<" ">>, <<"a", " ">>, <<"b">>}

RECURSIVE SeqsUpTo(_, _)
SeqsUpTo(S, n) ==
    IF n = 0 THEN {<< >>}
    ELSE SeqsUpTo(S, n - 1) \cup
         {Append(s, x) : s \in {q \in SeqsUpTo(S, n - 1) : Len(q) = n - 1}, x \in S}

ManifestOf(header, cells) ==
    FileOf(<<<<<<header>>>>>> \o [k \in 1..Len(cells) |-> <<cells[k]>>])
Manifests == {ManifestOf("url", cells) : cells \in SeqsUpTo(Cells, MaxManifest)}
\* a manifest that is missing, and one without the url header
BadManifests == {NoFile, ManifestOf("link", <<<<"b">>>>)}

\* strings the call can return: empty, blank, no JSON, and JSON objects
ResultStrings ==
    {EMPTY, <<" ", " ">>, <<"not json">>, <<" ", "not json">>,
     PlainJson, <<" ">> \o PlainJson \o <<" ">>, UrlJson}
BlankStrings == {r \in ResultStrings : strip(r) = EMPTY}
GarbageStrings == {r \in ResultStrings : strip(r) # EMPTY /\ ~IsJson(r)}

\* the replies the extraction client can give
AllReplies == {RaiseReply} \cup {ReplyOf(r) : r \in ResultStrings}
\* one failure and the two shapes of a JSON object
Replies == {RaiseReply, ObjectReply(PlainBody), ObjectReply(UrlBody(<<"b">>))}
\* one failure and one success
PoolReplies == {RaiseReply, ObjectReply(PlainBody)}

NotKilled == [was |-> FALSE, log |-> NoFile]

\* threading.Lock(): nobody holds it
Unlocked == [holders |-> {}, future |-> 0, written |-> FALSE]

\* no llm method is being executed
NoCall == [state |-> "idle"]
\* process_sources has not been called
NoProcessor == [state |-> "idle"]

Memory0 ==
    /\ all_urls = << >>
    /\ futures = << >>
    /\ yielded = {}
    /\ completed_count = 0
    /\ success_count = 0
    /\ fail_count = 0
    /\ log_at_start = NoFile
    /\ appended = << >>
    /\ promotions = 0
    /\ initialized = FALSE
    /\ csv_lock = Unlocked
    /\ llm_call = NoCall
    /\ processor = NoProcessor

Init ==
    /\ input_csv \in Manifests \cup BadManifests
    /\ temp_csv = NoFile
    /\ output_csv = NoFile
    /\ pc = "start"
    /\ run = 1
    /\ killed = NotKilled
    /\ Memory0

ResetMemory ==
    /\ all_urls' = << >>
    /\ futures' = << >>
    /\ yielded' = {}
    /\ completed_count' = 0
    /\ success_count' = 0
    /\ fail_count' = 0
    /\ log_at_start' = NoFile
    /\ appended' = << >>
    /\ promotions' = 0
    /\ initialized' = FALSE
    /\ csv_lock' = Unlocked
    /\ llm_call' = NoCall
    /\ processor' = NoProcessor

\* ------------------------------------------------- batch_crawl_large_scale
\* (variant: a manifest that cannot be read counts as an empty one)
LoadLenient ==
    /\ pc = "start"
    /\ all_urls' = IF LoadFails(input_csv) THEN << >>
                   ELSE load_urls_from_csv(input_csv, temp_csv)
    /\ log_at_start' = temp_csv
    /\ pc' = "loaded"
    /\ UNCHANGED <<files, run, futures, yielded, counters, appended, promotions,
                   killed, initialized, csv_lock, llm_call, processor>>

\* (variant: the temp file is removed once it has been read)
LoadConsuming ==
    /\ pc = "start"
    /\ IF LoadFails(input_csv)
       THEN /\ pc' = "exit1"
            /\ UNCHANGED <<all_urls, log_at_start>>
       ELSE /\ all_urls' = load_urls_from_csv(input_csv, temp_csv)
            /\ log_at_start' = temp_csv
            /\ pc' = "loaded"
    /\ temp_csv' = NoFile
    /\ UNCHANGED <<input_csv, output_csv, run, futures, yielded, counters, appended,
                   promotions, killed, initialized, csv_lock, llm_call, processor>>

\* line 150: all_urls = load_urls_from_csv(input_csv, temp_csv)
Load ==
    /\ pc = "start"
    /\ IF LoadFails(input_csv)
       THEN /\ pc' = "exit1"
            /\ UNCHANGED <<all_urls, log_at_start>>
       ELSE /\ all_urls' = load_urls_from_csv(input_csv, temp_csv)
            /\ log_at_start' = temp_csv
            /\ pc' = "loaded"
    /\ UNCHANGED <<files, run, futures, yielded, counters, appended, promotions, killed, initialized, csv_lock, llm_call, processor>>

\* lines 151-156: nothing pending
NothingToDo ==
    /\ pc = "loaded"
    /\ all_urls = << >>
    /\ IF temp_csv.exists /\ ~output_csv.exists
       THEN /\ output_csv' = temp_csv          \* os.rename(temp_csv, output_csv)
            /\ temp_csv' = NoFile
            /\ promotions' = promotions + 1
       ELSE UNCHANGED <<temp_csv, output_csv, promotions>>
    /\ pc' = "exit0"
    /\ UNCHANGED <<input_csv, run, all_urls, futures, yielded, counters,
                   log_at_start, appended, killed, initialized, csv_lock, llm_call, processor>>

\* (variant: the driver goes on to the executor without line 158)
InitTempSkipped ==
    /\ pc = "loaded"
    /\ all_urls # << >>
    /\ pc' = "inited"
    /\ UNCHANGED <<files, run, all_urls, futures, yielded, counters,
                   log_at_start, appended, promotions, killed, initialized, csv_lock, llm_call, processor>>

\* line 158
InitTemp ==
    /\ pc = "loaded"
    /\ all_urls # << >>
    /\ temp_csv' = init_temp_csv(temp_csv)
    /\ initialized' = TRUE
    /\ pc' = "inited"
    /\ UNCHANGED <<input_csv, output_csv, run, all_urls, futures, yielded, counters,
                   log_at_start, appended, promotions, killed, csv_lock, llm_call, processor>>

\* (variant: the futures are keyed by url, a url that is pending twice gets
\* one future)
SubmitAllDistinct ==
    /\ pc = "inited"
    /\ LET first == {i \in 1..Len(all_urls) :
                        \A j \in 1..(i - 1) : all_urls[j].url # all_urls[i].url}
       IN futures' = [i \in 1..Cardinality(first) |-> submit(all_urls[i])]
    /\ pc' = "drain"
    /\ UNCHANGED <<files, run, all_urls, yielded, counters, log_at_start, appended,
                   promotions, killed, initialized, csv_lock, llm_call, processor>>

\* lines 172-177: every pending item is submitted before the loop starts
SubmitAll ==
    /\ pc = "inited"
    /\ futures' = [i \in 1..Len(all_urls) |-> submit(all_urls[i])]
    /\ pc' = "drain"
    /\ UNCHANGED <<files, run, all_urls, yielded, counters, log_at_start, appended,
                   promotions, killed, initialized, csv_lock, llm_call, processor>>

\* a worker thread takes the next work item off the queue
StartTask(i) ==
    /\ pc = "drain"
    /\ CanStart(futures, i)
    /\ futures' = [futures EXCEPT ![i].state = "running"]
    /\ UNCHANGED <<files, pc, run, all_urls, yielded, counters, log_at_start, appended,
                   promotions, killed, initialized, csv_lock, llm_call, processor>>

\* one attempt of a running crawl_single_api
Attempt(i, reply) ==
    /\ pc = "drain"
    /\ futures[i].state = "running"
    /\ futures' = [futures EXCEPT ![i] = crawl_attempt(@, reply)]
    /\ UNCHANGED <<files, pc, run, all_urls, yielded, counters, log_at_start, appended,
                   promotions, killed, initialized, csv_lock, llm_call, processor>>

\* lines 180-217: one pass of the loop body for the future as_completed yields
Drain(i) ==
    /\ pc = "drain"
    /\ csv_lock.holders = {}
    /\ i \in as_completed(futures, yielded)
    /\ yielded' = yielded \cup {i}
    /\ completed_count' = completed_count + 1
    /\ LET got == future_result(futures[i])
           row == IF got.raised THEN error_result(all_urls[i], got.error) ELSE got.value
       IN /\ temp_csv' = write_result_to_csv(row, temp_csv)
          /\ appended' = Append(appended, <<i, FilteredResult(row)>>)
          /\ IF ~got.raised /\ got.value.crawl_status = SUCCESS
             THEN success_count' = success_count + 1 /\ UNCHANGED fail_count
             ELSE fail_count' = fail_count + 1 /\ UNCHANGED success_count
    /\ UNCHANGED <<input_csv, output_csv, pc, run, all_urls, futures, log_at_start,
                   promotions, killed, initialized, csv_lock, llm_call, processor>>

\* the loop ends; leaving the with block joins the workers
ExitPool ==
    /\ pc = "drain"
    /\ csv_lock.holders = {}
    /\ LoopDone(futures, yielded)
    /\ \A i \in DOMAIN futures : futures[i].state = "finished"
    /\ pc' = "promote"
    /\ UNCHANGED <<files, run, all_urls, futures, yielded, counters, log_at_start,
                   appended, promotions, killed, initialized, csv_lock, llm_call, processor>>

\* (variant: the log is copied to the final path and stays where it is)
PromoteKeepLog ==
    /\ pc = "promote"
    /\ IF ~temp_csv.exists
       THEN pc' = "report" /\ UNCHANGED <<temp_csv, output_csv, promotions>>
       ELSE IF output_csv.exists
            THEN /\ output_csv' = NoFile
                 /\ pc' = "rename"
                 /\ UNCHANGED <<temp_csv, promotions>>
            ELSE /\ output_csv' = temp_csv
                 /\ promotions' = promotions + 1
                 /\ pc' = "report"
                 /\ UNCHANGED temp_csv
    /\ UNCHANGED <<input_csv, run, all_urls, futures, yielded, counters, log_at_start,
                   appended, killed, initialized, csv_lock, llm_call, processor>>

\* lines 224-227
Promote ==
    /\ pc = "promote"
    /\ IF ~temp_csv.exists
       THEN pc' = "report" /\ UNCHANGED <<temp_csv, output_csv, promotions>>
       ELSE IF output_csv.exists
            THEN /\ output_csv' = NoFile             \* os.remove(output_csv)
                 /\ pc' = "rename"
                 /\ UNCHANGED <<temp_csv, promotions>>
            ELSE /\ output_csv' = temp_csv           \* os.rename(temp_csv, output_csv)
                 /\ temp_csv' = NoFile
                 /\ promotions' = promotions + 1
                 /\ pc' = "report"
    /\ UNCHANGED <<input_csv, run, all_urls, futures, yielded, counters, log_at_start,
                   appended, killed, initialized, csv_lock, llm_call, processor>>

\* line 227, after the old artifact was removed
Rename ==
    /\ pc = "rename"
    /\ output_csv' = temp_csv
    /\ temp_csv' = NoFile
    /\ promotions' = promotions + 1
    /\ pc' = "report"
    /\ UNCHANGED <<input_csv, run, all_urls, futures, yielded, counters, log_at_start,
                   appended, killed, initialized, csv_lock, llm_call, processor>>

\* lines 230-242: the final report, then the process ends
Report ==
    /\ pc = "report"
    /\ pc' = "exit0"
    /\ UNCHANGED <<files, run, all_urls, futures, yielded, counters, log_at_start,
                   appended, promotions, killed, initialized, csv_lock, llm_call, processor>>

\* ------------------------------------------------------------ environment
Alive == pc \in {"start", "loaded", "inited", "drain", "promote", "rename", "report"}

\* the process is killed: its memory is gone, the files stay as they are
Crash ==
    /\ Alive
    /\ pc' = "crashed"
    /\ killed' = [was |-> TRUE, log |-> temp_csv]
    /\ ResetMemory
    /\ UNCHANGED <<files, run>>

\* the pipeline is started again with the same manifest
Restart ==
    /\ pc \in {"exit0", "exit1", "crashed"}
    /\ run < MaxRuns
    /\ run' = run + 1
    /\ pc' = "start"
    /\ killed' = IF pc = "crashed" THEN killed ELSE NotKilled
    /\ ResetMemory
    /\ UNCHANGED files

\* the steps of the driver and the start of a task by a worker thread
DriverStep ==
    \/ Load
    \/ NothingToDo
    \/ InitTemp
    \/ SubmitAll
    \/ \E i \in DOMAIN futures : StartTask(i)
    \/ \E i \in DOMAIN futures : Drain(i)
    \/ ExitPool
    \/ Promote
    \/ Report

\* runs, kills and restarts
Next ==
    \/ DriverStep
    \/ \E i \in DOMAIN futures, reply \in Replies : Attempt(i, reply)
    \/ Rename
    \/ Crash
    \/ Restart

Spec == Init /\ [][Next]_vars

\* ------------------------------- one run, every kind of reply to an attempt
NextRun ==
    \/ DriverStep
    \/ \E i \in DOMAIN futures, reply \in AllReplies : Attempt(i, reply)

RunSpec == Init /\ [][NextRun]_vars

\* ------------------------------------------- the executor, more items than
\* workers: one run over a manifest of MaxPool non-empty urls
PoolManifests ==
    {ManifestOf("url", [k \in 1..MaxPool |-> <<"u">> \o IntToStr(k)])}
InitPool ==
    /\ input_csv \in PoolManifests
    /\ temp_csv = NoFile
    /\ output_csv = NoFile
    /\ pc = "start"
    /\ run = 1
    /\ killed = NotKilled
    /\ Memory0

NextPool ==
    \/ Load
    \/ InitTemp
    \/ SubmitAll
    \/ \E i \in DOMAIN futures : StartTask(i)
    \/ \E i \in DOMAIN futures, reply \in PoolReplies : Attempt(i, reply)
    \/ \E i \in DOMAIN futures : Drain(i)
    \/ ExitPool
    \/ Promote
    \/ Report

PoolSpec == InitPool /\ [][NextPool]_vars

\* ------------------------------------------------ one run, with the clock
\* a running invocation has now been running for longer than the 60 seconds
\* the loop passes to future.result
Elapse(i) ==
    /\ pc = "drain"
    /\ futures[i].state = "running"
    /\ ~futures[i].overran
    /\ futures' = [futures EXCEPT ![i].overran = TRUE]
    /\ UNCHANGED <<files, pc, run, all_urls, yielded, counters, log_at_start, appended,
                   promotions, killed, initialized, csv_lock, llm_call, processor>>

NextTimed ==
    \/ DriverStep
    \/ \E i \in DOMAIN futures, reply \in PoolReplies : Attempt(i, reply)
    \/ \E i \in DOMAIN futures : Elapse(i)

TimedSpec == Init /\ [][NextTimed]_vars

\* ------------------------------------- one run in which a task may hang
\* an extraction call that never returns
Hang(i) ==
    /\ pc = "drain"
    /\ futures[i].state = "running"
    /\ futures' = [futures EXCEPT ![i].state = "hung"]
    /\ UNCHANGED <<files, pc, run, all_urls, yielded, counters, log_at_start, appended,
                   promotions, killed, initialized, csv_lock, llm_call, processor>>

NextLive ==
    \/ DriverStep
    \/ \E i \in DOMAIN futures, reply \in PoolReplies : Attempt(i, reply)
    \/ \E i \in DOMAIN futures : Hang(i)

\* the main thread runs the loop body whenever as_completed has a future for it
LiveSpec ==
    /\ Init
    /\ [][NextLive]_vars
    /\ \A i \in 1..MaxManifest : WF_vars(Drain(i))

\* ------------- one run in which a task may hang, under fair scheduling
\* The main thread runs its next statement whenever it can, a free worker
\* takes the next queued item, and an extraction call that does not hang
\* returns or raises.
FairSpec ==
    /\ Init
    /\ [][NextLive]_vars
    /\ WF_vars(Load)
    /\ WF_vars(NothingToDo)
    /\ WF_vars(InitTemp)
    /\ WF_vars(SubmitAll)
    /\ WF_vars(ExitPool)
    /\ WF_vars(Promote)
    /\ WF_vars(Report)
    /\ \A i \in 1..MaxManifest :
          /\ WF_vars(i \in DOMAIN futures /\ StartTask(i))
          /\ WF_vars(i \in DOMAIN futures
                        /\ \E reply \in PoolReplies : Attempt(i, reply))
          /\ WF_vars(i \in DOMAIN futures /\ Drain(i))

\* ------------------------ one run, the page fetch and faults of a task
\* what requests.get(url) does: the page, a timeout, another request error
Pages ==
    {[outcome |-> "ok", text |-> <<"page text">>],
     [outcome |-> "timeout", text |-> EMPTY],
     [outcome |-> "request error", text |-> EMPTY]}
\* what self.llm(messages) does
LlmReplies == {RaiseReply, ReplyOf(PlainJson), ReplyOf(StatusJson)}

\* one attempt of a running crawl_single_api, through VisitGPT4o.call
AttemptVisit(i, page, llm) ==
    /\ pc = "drain"
    /\ futures[i].state = "running"
    /\ futures' =
          [futures EXCEPT ![i] =
              [crawl_attempt(@, VisitGPT4o_call(page, llm))
                 EXCEPT !.fetched = IF page.outcome = "ok" THEN @ + 1 ELSE @]]
    /\ UNCHANGED <<files, pc, run, all_urls, yielded, counters, log_at_start, appended,
                   promotions, killed, initialized, csv_lock, llm_call, processor>>

\* an exception leaves crawl_single_api (raised outside the try of the loop,
\* or inside its except block): the future is done and holds the exception
TaskFault == [raised |-> TRUE, text |-> <<"MemoryError">>]
Fault(i) ==
    /\ pc = "drain"
    /\ futures[i].state = "running"
    /\ futures' = [futures EXCEPT ![i].state = "finished", ![i].fault = TaskFault]
    /\ UNCHANGED <<files, pc, run, all_urls, yielded, counters, log_at_start, appended,
                   promotions, killed, initialized, csv_lock, llm_call, processor>>

NextVisit ==
    \/ DriverStep
    \/ \E i \in DOMAIN futures, page \in Pages, llm \in LlmReplies :
          AttemptVisit(i, page, llm)
    \/ \E i \in DOMAIN futures : Fault(i)

VisitSpec == Init /\ [][NextVisit]_vars

\* ------------------- one run started on the files earlier runs have left
\* the success row crawl_single_api returns for a manifest row
SuccessRow(url, row_num) ==
    FilteredResult(
        crawl_attempt(submit([url |-> url, original_row_num |-> row_num]),
                      ReplyOf(PlainJson)).result)
\* the log of a run that was killed after the last append, every extraction
\* having succeeded: one success row for each non-empty manifest row
RECURSIVE SuccessRows(_, _)
SuccessRows(rows, row_num) ==
    IF rows = << >> THEN << >>
    ELSE (IF strip(Head(rows)[1]) = EMPTY THEN << >>
          ELSE <<SuccessRow(strip(Head(rows)[1]), row_num)>>)
         \o SuccessRows(Tail(rows), row_num + 1)
CompleteLog(csv_file) ==
    FileOf(<<HeaderLine(get_csv_columns)>> \o SuccessRows(DataLines(csv_file), 2))
\* the record crawl_single_api returns when every attempt raises
RECURSIVE Exhausted(_)
Exhausted(t) ==
    IF crawl_attempt(t, RaiseReply).state = "finished"
    THEN crawl_attempt(t, RaiseReply)
    ELSE Exhausted(crawl_attempt(t, RaiseReply))
RECURSIVE FailedRows(_, _)
FailedRows(rows, row_num) ==
    IF rows = << >> THEN << >>
    ELSE (IF strip(Head(rows)[1]) = EMPTY THEN << >>
          ELSE <<FilteredResult(
                    Exhausted(submit([url |-> strip(Head(rows)[1]),
                                      original_row_num |-> row_num])).result)>>)
         \o FailedRows(Tail(rows), row_num + 1)
\* the artifact promoted by a still earlier run in which every extraction
\* failed
OldArtifact(csv_file) ==
    FileOf(<<HeaderLine(get_csv_columns)>> \o FailedRows(DataLines(csv_file), 2))

\* the files at the start of a run: nothing, the artifact of a completed
\* run, the log of a killed run, or both (a manifest without a url never
\* gets a log)
InitResume ==
    /\ input_csv \in Manifests
    /\ temp_csv \in {NoFile} \cup
          (IF SuccessRows(DataLines(input_csv), 2) # << >>
           THEN {CompleteLog(input_csv)} ELSE {})
    /\ output_csv \in {NoFile} \cup
          (IF SuccessRows(DataLines(input_csv), 2) # << >>
           THEN {OldArtifact(input_csv)} ELSE {})
    /\ pc = "start"
    /\ run = 1
    /\ killed = NotKilled
    /\ Memory0

NextResume ==
    \/ DriverStep
    \/ \E i \in DOMAIN futures, reply \in PoolReplies : Attempt(i, reply)
    \/ Rename

ResumeSpec == InitResume /\ [][NextResume]_vars

\* --------------- one run, write_result_to_csv step by step under csv_lock
\* lines 180-187 and `with lock`: the loop takes the next future and enters
\* the critical section
DrainAcquire(i) ==
    /\ pc = "drain"
    /\ csv_lock.holders = {}
    /\ i \in as_completed(futures, yielded)
    /\ yielded' = yielded \cup {i}
    /\ completed_count' = completed_count + 1
    /\ csv_lock' = [holders |-> {"main"}, future |-> i, written |-> FALSE]
    /\ UNCHANGED <<llm_call, processor>>
    /\ UNCHANGED <<files, pc, run, all_urls, futures, success_count, fail_count,
                   log_at_start, appended, promotions, killed, initialized>>

\* lines 139-144: open for append, writerow, close
DrainWrite ==
    /\ pc = "drain"
    /\ "main" \in csv_lock.holders
    /\ ~csv_lock.written
    /\ LET i == csv_lock.future
           got == future_result(futures[i])
           row == IF got.raised THEN error_result(all_urls[i], got.error) ELSE got.value
       IN /\ temp_csv' = write_result_to_csv(row, temp_csv)
          /\ appended' = Append(appended, <<i, FilteredResult(row)>>)
    /\ csv_lock' = [csv_lock EXCEPT !.written = TRUE]
    /\ UNCHANGED <<llm_call, processor>>
    /\ UNCHANGED <<input_csv, output_csv, pc, run, all_urls, futures, yielded, counters,
                   log_at_start, promotions, killed, initialized>>

\* the end of `with lock`, then the counters of lines 191-195 and 208
DrainRelease ==
    /\ pc = "drain"
    /\ "main" \in csv_lock.holders
    /\ csv_lock.written
    /\ csv_lock' = Unlocked
    /\ UNCHANGED <<llm_call, processor>>
    /\ LET got == future_result(futures[csv_lock.future])
       IN IF ~got.raised /\ got.value.crawl_status = SUCCESS
          THEN success_count' = success_count + 1 /\ UNCHANGED fail_count
          ELSE fail_count' = fail_count + 1 /\ UNCHANGED success_count
    /\ UNCHANGED <<files, pc, run, all_urls, futures, yielded, completed_count,
                   log_at_start, appended, promotions, killed, initialized>>

NextLock ==
    \/ Load
    \/ NothingToDo
    \/ InitTemp
    \/ SubmitAll
    \/ \E i \in DOMAIN futures : StartTask(i)
    \/ \E i \in DOMAIN futures, reply \in PoolReplies : Attempt(i, reply)
    \/ \E i \in DOMAIN futures : DrainAcquire(i)
    \/ DrainWrite
    \/ DrainRelease
    \/ ExitPool
    \/ Promote
    \/ Report

LockSpec == Init /\ [][NextLock]_vars

\* ------------- one run in which an append or a print of the loop may fail
\* what the four statements of one pass of the loop body that can fail do:
\* write1 is line 189, print1 the prints of lines 193-204, write2 line 216,
\* print2 line 217
IOs == [write1 : {"ok", "fail"}, print1 : {"ok", "fail"},
        write2 : {"ok", "fail"}, print2 : {"ok", "fail"}]

\* (variant: the except branch of the loop is `pass`)
drain_outcome_swallow(f, url_info, io) ==
    LET got == future_result(f)
        none == [rows |-> << >>, succ |-> 0, fail |-> 0, uncaught |-> FALSE]
    IN IF got.raised \/ io.write1 = "fail" THEN none
       ELSE [rows |-> <<got.value>>,
             succ |-> IF got.value.crawl_status = SUCCESS THEN 1 ELSE 0,
             fail |-> IF got.value.crawl_status = SUCCESS THEN 0 ELSE 1,
             uncaught |-> FALSE]

\* (variant: the counters of lines 191-196 are updated before the write of
\* line 189)
drain_outcome_count_first(f, url_info, io) ==
    LET got == future_result(f)
        none == [rows |-> << >>, succ |-> 0, fail |-> 0, uncaught |-> FALSE]
        except_branch(e, sofar) ==
            IF io.write2 = "fail"
            THEN [sofar EXCEPT !.fail = @ + 1, !.uncaught = TRUE]
            ELSE [sofar EXCEPT !.fail = @ + 1,
                               !.rows = Append(@, error_result(url_info, e)),
                               !.uncaught = (io.print2 = "fail")]
    IN IF got.raised THEN except_branch(got.error, none)
       ELSE LET counted ==
                    [rows |-> << >>,
                     succ |-> IF got.value.crawl_status = SUCCESS THEN 1 ELSE 0,
                     fail |-> IF got.value.crawl_status = SUCCESS THEN 0 ELSE 1,
                     uncaught |-> FALSE]
                written == [counted EXCEPT !.rows = <<got.value>>]
            IN IF io.write1 = "fail" THEN except_branch(<<"write failed">>, counted)
               ELSE IF io.print1 = "fail"
                    THEN except_branch(<<"print failed">>, written)
                    ELSE written

\* lines 185-217, one pass of the try statement of the loop: the records
\* written to the log, in order, the increments of the two counters, and
\* whether an exception leaves the loop. A failed write adds nothing to the
\* file.
drain_outcome(f, url_info, io) ==
    LET got == future_result(f)
        none == [rows |-> << >>, succ |-> 0, fail |-> 0, uncaught |-> FALSE]
        \* lines 206-217, entered with the exception e and what was done so far
        except_branch(e, sofar) ==
            IF io.write2 = "fail"
            THEN [sofar EXCEPT !.fail = @ + 1, !.uncaught = TRUE]
            ELSE [sofar EXCEPT !.fail = @ + 1,
                               !.rows = Append(@, error_result(url_info, e)),
                               !.uncaught = (io.print2 = "fail")]
    IN IF got.raised THEN except_branch(got.error, none)
       ELSE IF io.write1 = "fail" THEN except_branch(<<"write failed">>, none)
       ELSE LET written ==
                    [rows |-> <<got.value>>,
                     succ |-> IF got.value.crawl_status = SUCCESS THEN 1 ELSE 0,
                     fail |-> IF got.value.crawl_status = SUCCESS THEN 0 ELSE 1,
                     uncaught |-> FALSE]
            IN IF io.print1 = "fail" THEN except_branch(<<"print failed">>, written)
               ELSE written

\* write_result_to_csv for each record of a sequence
RECURSIVE WriteAll(_, _)
WriteAll(rows, file) ==
    IF rows = << >> THEN file
    ELSE WriteAll(Tail(rows), write_result_to_csv(Head(rows), file))

\* lines 180-217 with the failures io; an exception that leaves the loop
\* ends the driver with a traceback
DrainIO(i, io) ==
    /\ pc = "drain"
    /\ csv_lock.holders = {}
    /\ i \in as_completed(futures, yielded)
    /\ yielded' = yielded \cup {i}
    /\ completed_count' = completed_count + 1
    /\ LET out == drain_outcome(futures[i], all_urls[i], io)
       IN /\ temp_csv' = WriteAll(out.rows, temp_csv)
          /\ appended' = appended \o
                [k \in 1..Len(out.rows) |-> <<i, FilteredResult(out.rows[k])>>]
          /\ success_count' = success_count + out.succ
          /\ fail_count' = fail_count + out.fail
          /\ pc' = IF out.uncaught THEN "error" ELSE pc
    /\ UNCHANGED <<input_csv, output_csv, run, all_urls, futures, log_at_start,
                   promotions, killed, initialized, csv_lock, llm_call, processor>>

NextIO ==
    \/ Load
    \/ NothingToDo
    \/ InitTemp
    \/ SubmitAll
    \/ \E i \in DOMAIN futures : StartTask(i)
    \/ \E i \in DOMAIN futures, reply \in PoolReplies : Attempt(i, reply)
    \/ \E i \in DOMAIN futures : Fault(i)
    \/ \E i \in DOMAIN futures, io \in IOs : DrainIO(i, io)
    \/ ExitPool
    \/ Promote
    \/ Report

IOSpec == Init /\ [][NextIO]_vars

\* ------------- one run in which an append may fail and every print works
QuietIOs == {io \in IOs : io.print1 = "ok" /\ io.print2 = "ok"}

NextQuiet ==
    \/ Load
    \/ NothingToDo
    \/ InitTemp
    \/ SubmitAll
    \/ \E i \in DOMAIN futures : StartTask(i)
    \/ \E i \in DOMAIN futures, reply \in PoolReplies : Attempt(i, reply)
    \/ \E i \in DOMAIN futures : Fault(i)
    \/ \E i \in DOMAIN futures, io \in QuietIOs : DrainIO(i, io)
    \/ ExitPool
    \/ Promote
    \/ Report

QuietSpec == Init /\ [][NextQuiet]_vars

\* ------------------ one run of the variant of enhanced_api_crawler.py
\* Its load_urls_from_csv, init_temp_csv, get_csv_columns,
\* write_result_to_csv and the loop of its driver are the same text as in
\* api_crawler_gpt.py; crawl_single_api and the final report differ. (Its
\* pool has 8 workers; with the work items modelled here neither cap is
\* ever reached.)
ENHANCED_MAX_RETRIES == 3
ENHANCED_RETRY_DELAY == 1

\* urls as cells: a host, then maybe "/" and a path part or "#" and a fragment
EnhancedCells == {<<"h">>, <<"h", "#", "fn">>, <<"[bad">>}
EnhancedManifests ==
    {ManifestOf("url", cells) : cells \in SeqsUpTo(EnhancedCells, MaxManifest)}

\* urlparse(url) raises ValueError (a bracket that is not an IPv6 host)
UrlParseRaises(url) == url # << >> /\ url[1] = "[bad"

\* extract_api_from_url: the name after the last "#" with a "_" put before
\* it, else the last path part, else ''
extract_api_from_url(url) ==
    IF \E k \in 1..(Len(url) - 1) : url[k] = "#"
    THEN [api_name |-> <<"_">> \o <<url[Len(url)]>>, method |-> "fragment"]
    ELSE IF \E k \in 1..(Len(url) - 1) : url[k] = "/"
         THEN [api_name |-> <<url[Len(url)]>>, method |-> "path"]
         ELSE [api_name |-> EMPTY, method |-> "none"]

\* what identify_target_api_with_gpt returns (from GPT or from the
\* fallback): a dict, with or without the key target_api
ApiData ==
    {[target_api |-> <<"fn">>, change_type |-> <<"API Removal">>],
     [change_type |-> EMPTY]}

\* api_data.get(key, default)
DictGet(d, key, default) == IF key \in DOMAIN d THEN d[key] ELSE default

\* the exception one failed attempt ends with
EnhancedError(url, page) ==
    IF UrlParseRaises(url)
    THEN [kind |-> "raise", msg |-> <<"Invalid IPv6 URL">>, body |-> NoBody]
    ELSE [kind |-> "raise", msg |-> <<"page crawl failed: ">> \o page.error,
          body |-> NoBody]

\* One pass of the body of the retry loop of
\* EnhancedAPICrawler.crawl_single_api, entered with retry = t.calls,
\* followed by lines 386-388 when the loop ends. page is what
\* crawl_page_content returns, api_data what the identification returns.
enhanced_crawl_attempt(t, page, api_data) ==
    LET url == t.result.url
        api_from_url == extract_api_from_url(url).api_name
    IN IF ~UrlParseRaises(url) /\ page.status = "success"
       THEN [t EXCEPT
               !.calls = @ + 1,
               !.result = Update(@,
                   [api |-> DictGet(api_data, "target_api", api_from_url),
                    package |-> DictGet(api_data, "package", EMPTY),
                    language |-> DictGet(api_data, "language", <<"JavaScript">>),
                    deprecated_in |-> DictGet(api_data, "deprecated_in", EMPTY),
                    removed_in |-> DictGet(api_data, "removed_in", EMPTY),
                    replaced_by |-> DictGet(api_data, "replaced_by", EMPTY),
                    change_type |-> DictGet(api_data, "change_type", EMPTY),
                    reason |-> DictGet(api_data, "reason", EMPTY),
                    source |-> DictGet(api_data, "source", url),
                    crawl_status |-> SUCCESS,
                    error_msg |-> EMPTY]),
               !.state = "finished"]
       ELSE LET msg == AttemptErrorMsg(t.calls, EnhancedError(url, page))
                exhausted ==
                    <<"exceeded ">> \o IntToStr(ENHANCED_MAX_RETRIES)
                        \o <<" retries: ">> \o msg
            IN IF t.calls + 1 < ENHANCED_MAX_RETRIES
               THEN [t EXCEPT !.calls = @ + 1,
                              !.errors = Append(@, EnhancedError(url, page).msg),
                              !.result = Update(@, [error_msg |-> msg]),
                              !.sleeps = Append(@, ENHANCED_RETRY_DELAY)]
               ELSE IF UrlParseRaises(url)
                    \* line 387 reads url_info, which was never bound
                    THEN [t EXCEPT !.calls = @ + 1,
                                   !.errors = Append(@, EnhancedError(url, page).msg),
                                   !.result = Update(@, [error_msg |-> exhausted]),
                                   !.fault = [raised |-> TRUE,
                                              text |-> <<"UnboundLocalError">>],
                                   !.state = "finished"]
                    ELSE [t EXCEPT !.calls = @ + 1,
                                   !.errors = Append(@, EnhancedError(url, page).msg),
                                   !.result = Update(@, [error_msg |-> exhausted,
                                                         api |-> api_from_url]),
                                   !.state = "finished"]

\* what crawl_page_content returns
PageContents ==
    {[status |-> "success", error |-> EMPTY],
     [status |-> "failed", error |-> <<"timeout">>]}

EnhancedAttempt(i, page, api_data) ==
    /\ pc = "drain"
    /\ futures[i].state = "running"
    /\ futures' = [futures EXCEPT ![i] = enhanced_crawl_attempt(@, page, api_data)]
    /\ UNCHANGED <<files, pc, run, all_urls, yielded, counters, log_at_start, appended,
                   promotions, killed, initialized, csv_lock, llm_call, processor>>

\* lines 548-562 of enhanced_api_crawler.py: the summary is printed up to
\* line 560; line 561 reads output_file, a name defined nowhere, and the
\* NameError ends the driver
ReportEnhanced ==
    /\ pc = "report"
    /\ pc' = "error"
    /\ UNCHANGED <<files, run, all_urls, futures, yielded, counters, log_at_start,
                   appended, promotions, killed, initialized, csv_lock, llm_call, processor>>

InitEnhanced ==
    /\ input_csv \in EnhancedManifests
    /\ temp_csv = NoFile
    /\ output_csv = NoFile
    /\ pc = "start"
    /\ run = 1
    /\ killed = NotKilled
    /\ Memory0

NextEnhanced ==
    \/ Load
    \/ NothingToDo
    \/ InitTemp
    \/ SubmitAll
    \/ \E i \in DOMAIN futures : StartTask(i)
    \/ \E i \in DOMAIN futures, page \in PageContents, api_data \in ApiData :
          EnhancedAttempt(i, page, api_data)
    \/ \E i \in DOMAIN futures : Drain(i)
    \/ ExitPool
    \/ Promote
    \/ ReportEnhanced

EnhancedSpec == InitEnhanced /\ [][NextEnhanced]_vars

\* ------------------------------------- the llm method of the visit tools
\* Visit.llm (WebAgent, Azure client) and VisitGPT4o.llm have the same loop
\* with other numbers: max_retries = 10 and time.sleep(2 ** attempt) in the
\* first, max_retries = 3 and time.sleep(3) in the second.
Visit_max_retries == 10
VisitGPT4o_max_retries == 3

\* what one chat.completions.create call does: it returns a response whose
\* message content is a JSON document or the empty string, or it raises
ServiceReplies ==
    {[ok |-> TRUE, content |-> PlainJson, error |-> EMPTY],
     [ok |-> TRUE, content |-> EMPTY, error |-> EMPTY],
     [ok |-> FALSE, content |-> EMPTY, error |-> <<"timeout">>],
     [ok |-> FALSE, content |-> EMPTY, error |-> <<"rate limit">>]}

\* the method has been entered: attempt is the loop variable, calls counts
\* the service calls, sleeps keeps the arguments of time.sleep; replies is
\* the history of what the service did
StartCall(tool) ==
    [state |-> "running", tool |-> tool, attempt |-> 0, calls |-> 0,
     sleeps |-> << >>, value |-> EMPTY, error |-> EMPTY, fell_through |-> FALSE,
     replies |-> << >>]

\* (variant: the wait grows by one second per attempt)
Visit_llm_linear(c, reply) ==
    IF c.attempt >= Visit_max_retries
    THEN [c EXCEPT !.state = "returned", !.value = EMPTY, !.fell_through = TRUE]
    ELSE IF reply.ok
    THEN [c EXCEPT !.calls = @ + 1, !.state = "returned", !.value = reply.content]
    ELSE IF c.attempt = Visit_max_retries - 1
    THEN [c EXCEPT !.calls = @ + 1, !.state = "raised", !.error = reply.error]
    ELSE [c EXCEPT !.calls = @ + 1,
                   !.sleeps = Append(@, c.attempt + 1),
                   !.attempt = @ + 1]

\* Visit.llm, lines 84-99: one pass of `for attempt in range(max_retries)`,
\* or the `return ""` after the loop when the loop is over
Visit_llm(c, reply) ==
    IF c.attempt >= Visit_max_retries
    THEN [c EXCEPT !.state = "returned", !.value = EMPTY, !.fell_through = TRUE]
    ELSE IF reply.ok
    THEN [c EXCEPT !.calls = @ + 1, !.state = "returned", !.value = reply.content]
    ELSE IF c.attempt = Visit_max_retries - 1
    THEN [c EXCEPT !.calls = @ + 1, !.state = "raised", !.error = reply.error]
    ELSE [c EXCEPT !.calls = @ + 1,
                   !.sleeps = Append(@, 2 ^ c.attempt),
                   !.attempt = @ + 1]

\* (variant: line 103 is `if attempt == max_retries`, which never holds)
VisitGPT4o_llm_no_reraise(c, reply) ==
    IF c.attempt >= VisitGPT4o_max_retries
    THEN [c EXCEPT !.state = "returned", !.value = EMPTY, !.fell_through = TRUE]
    ELSE IF reply.ok
    THEN [c EXCEPT !.calls = @ + 1, !.state = "returned", !.value = reply.content]
    ELSE IF c.attempt = VisitGPT4o_max_retries - 1
    THEN [c EXCEPT !.calls = @ + 1, !.sleeps = Append(@, 3),
                   !.state = "returned", !.value = EMPTY, !.fell_through = TRUE]
    ELSE [c EXCEPT !.calls = @ + 1,
                   !.sleeps = Append(@, 3),
                   !.attempt = @ + 1]

\* VisitGPT4o.llm, lines 87-106
VisitGPT4o_llm(c, reply) ==
    IF c.attempt >= VisitGPT4o_max_retries
    THEN [c EXCEPT !.state = "returned", !.value = EMPTY, !.fell_through = TRUE]
    ELSE IF reply.ok
    THEN [c EXCEPT !.calls = @ + 1, !.state = "returned", !.value = reply.content]
    ELSE IF c.attempt = VisitGPT4o_max_retries - 1
    THEN [c EXCEPT !.calls = @ + 1, !.state = "raised", !.error = reply.error]
    ELSE [c EXCEPT !.calls = @ + 1,
                   !.sleeps = Append(@, 3),
                   !.attempt = @ + 1]

\* a caller enters the llm method of one of the tools
LlmStart(tool) ==
    /\ llm_call.state = "idle"
    /\ llm_call' = StartCall(tool)
    /\ UNCHANGED <<files, pc, run, all_urls, futures, yielded, counters, log_at_start,
                   appended, promotions, killed, initialized, csv_lock, processor>>

\* the service answers the call of the current pass of the loop
LlmStep(reply) ==
    /\ llm_call.state = "running"
    /\ llm_call' =
          [(IF llm_call.tool = "Visit" THEN Visit_llm(llm_call, reply)
            ELSE VisitGPT4o_llm(llm_call, reply))
             EXCEPT !.replies = Append(@, reply)]
    /\ UNCHANGED <<files, pc, run, all_urls, futures, yielded, counters, log_at_start,
                   appended, promotions, killed, initialized, csv_lock, processor>>

InitLlm ==
    /\ Init
    /\ input_csv = NoFile

NextLlm ==
    \/ \E tool \in {"Visit", "VisitGPT4o"} : LlmStart(tool)
    \/ \E reply \in ServiceReplies : LlmStep(reply)

LlmSpec == InitLlm /\ [][NextLlm]_vars

\* ------------- one run, each attempt through VisitGPT4o.call and its llm
\* The calls are taken one at a time: an attempt enters visit_tool.call when
\* no other call is in progress.
\* lines 113 and 194-219: the page is read; when it cannot be read the call
\* returns the error document at once, otherwise it enters self.llm
CallStart(i, page) ==
    /\ pc = "drain"
    /\ futures[i].state = "running"
    /\ llm_call.state = "idle"
    /\ IF read_webpage(page) = EMPTY
       THEN /\ futures' = [futures EXCEPT ![i] = crawl_attempt(@, ReplyOf(ErrorJson))]
            /\ UNCHANGED llm_call
       ELSE /\ futures' = [futures EXCEPT ![i].state = "calling", ![i].fetched = @ + 1]
            /\ llm_call' = StartCall("VisitGPT4o")
    /\ UNCHANGED <<files, pc, run, all_urls, yielded, counters, log_at_start, appended,
                   promotions, killed, initialized, csv_lock, processor>>

\* lines 219-222 and 113-129: self.llm has returned or raised, and the
\* attempt of crawl_single_api goes on with what it got
CallReturn(i) ==
    /\ pc = "drain"
    /\ futures[i].state = "calling"
    /\ llm_call.state \in {"returned", "raised"}
    /\ LET reply == IF llm_call.state = "returned" THEN ReplyOf(llm_call.value)
                    ELSE [kind |-> "raise", msg |-> llm_call.error, body |-> NoBody]
           t == [futures[i] EXCEPT !.state = "running",
                                   !.service_calls = @ + llm_call.calls]
       IN futures' = [futures EXCEPT ![i] = crawl_attempt(t, reply)]
    /\ llm_call' = NoCall
    /\ UNCHANGED <<files, pc, run, all_urls, yielded, counters, log_at_start, appended,
                   promotions, killed, initialized, csv_lock, processor>>

NextNested ==
    \/ DriverStep
    \/ \E i \in DOMAIN futures, page \in Pages : CallStart(i, page)
    \/ \E reply \in ServiceReplies : LlmStep(reply)
    \/ \E i \in DOMAIN futures : CallReturn(i)

\* a manifest of at most one row: the claim is about one invocation
InitNested ==
    /\ Init
    /\ Len(DataLines(input_csv)) <= 1

NestedSpec == InitNested /\ [][NextNested]_vars

\* ------------------------------------------ EnhancedLodashDocProcessor
\* The text of a code block is a sequence of lines. The lines that occur,
\* for the target api "_.chunk" (clean_api "chunk"):
\*   L_chunk  _.chunk(['a', 'b'], 1)   a call of the target api
\*   L_map    _.map([1, 2], f)         a call of another api
\*   L_note   // example               a comment
\*   L_out    [['a'], ['b']]           printed output
\* and "" for the empty line
L_chunk == "_.chunk(['a', 'b'], 1)"
L_map == "_.map([1, 2], f)"
L_note == "// example"
L_out == "[['a'], ['b']]"

\* the regular expressions of lines 202-208, 322-325, 340-341 and 382-384 on these
\* lines
MentionsTarget(line) == line = L_chunk

\* _has_actual_code(code_lines, clean_api), lines 358-387
has_actual_code(code_lines) ==
    /\ code_lines # << >>
    /\ \E k \in DOMAIN code_lines : code_lines[k] \in {L_chunk, L_map}
    /\ \E k \in DOMAIN code_lines : MentionsTarget(code_lines[k])

\* '\n'.join(output_lines).strip(): the blank lines at the end are dropped
\* (output_lines never begins with one)
RECURSIVE StripLines(_)
StripLines(lines) ==
    IF lines # << >> /\ lines[Len(lines)] = ""
    THEN StripLines(SubSeq(lines, 1, Len(lines) - 1))
    ELSE lines

\* extract_examples_manual, lines 299-356: the loop over the lines, with the
\* examples saved so far and the example being collected; none of the lines
\* is an import, so _format_code leaves them as they are
RECURSIVE ManualLoop(_, _, _)
ManualLoop(lines, examples, current) ==
    LET \* startswith('>>>'), '...', '//' or re.match(r'^(_|lodash|\w+)', stripped)
        CodeLike(line) == line \in {L_chunk, L_map, L_note}
        \* ... and ('=' in stripped or one of '_.', 'function', '=>' in stripped)
        StartsExample(line) == line \in {L_chunk, L_map}
        saved == IF has_actual_code(current.code_lines)
                 THEN Append(examples, [code |-> current.code_lines,
                                        output |-> StripLines(current.output_lines)])
                 ELSE examples
    IN IF lines = << >>
       THEN saved                                   \* lines 349-354
       ELSE LET line == Head(lines)
            IN IF StartsExample(line) /\ current.code_lines # << >>
               THEN ManualLoop(Tail(lines), saved,
                               [code_lines |-> <<line>>, output_lines |-> << >>])
               ELSE IF CodeLike(line)
               THEN ManualLoop(Tail(lines), examples,
                               [current EXCEPT !.code_lines = Append(@, line)])
               ELSE IF line # "" \/ current.output_lines # << >>
               THEN ManualLoop(Tail(lines), examples,
                               [current EXCEPT !.output_lines = Append(@, line)])
               ELSE ManualLoop(Tail(lines), examples, current)

extract_examples_manual(mixed_code) ==
    ManualLoop(mixed_code, << >>, [code_lines |-> << >>, output_lines |-> << >>])

\* lines 230-233: the code of the blocks, each followed by "\n\n", split
\* into lines again
RECURSIVE MixedCode(_)
MixedCode(blocks) ==
    IF blocks = << >> THEN <<"">>
    ELSE Head(blocks).code \o <<"">> \o MixedCode(Tail(blocks))

\* a <pre> tag of a page: its text and the description found before it
D_chunk == "Splits an array with chunk"
\* what crawl_page returns: None, or the html with its <pre> tags
ProcessorPages ==
    LET PreTarget == [code |-> <<L_chunk, L_out>>, description |-> ""]
        PreOther == [code |-> <<L_map, L_out>>, description |-> ""]
        PreDescribed == [code |-> <<L_note, L_out>>, description |-> D_chunk]
        PreEmpty == [code |-> << >>, description |-> ""]
    IN {[html |-> FALSE, pre_tags |-> << >>]} \cup
       {[html |-> TRUE, pre_tags |-> tags] :
           tags \in {<< >>, <<PreTarget>>, <<PreOther>>, <<PreDescribed>>,
                     <<PreEmpty, PreTarget>>, <<PreTarget, PreOther>>,
                     <<PreTarget, PreTarget>>}}

\* extract_all_code_blocks, lines 75-103: the <pre> tags with text, each
\* with its position among all <pre> tags
extract_all_code_blocks(page) ==
    LET keep == SelectSeq([k \in 1..Len(page.pre_tags) |-> k],
                          LAMBDA k : page.pre_tags[k].code # << >>)
    IN [j \in 1..Len(keep) |->
          [index |-> keep[j] - 1,
           code |-> page.pre_tags[keep[j]].code,
           description |-> page.pre_tags[keep[j]].description]]

\* filter_examples_by_keywords, lines 190-223
filter_examples_by_keywords(code_blocks) ==
    LET found_api(b) == \E k \in DOMAIN b.code : MentionsTarget(b.code[k])
        description_mention(b) == b.description = D_chunk
        kept == SelectSeq(code_blocks,
                          LAMBDA b : found_api(b) \/ description_mention(b))
    IN [j \in 1..Len(kept) |->
          [index |-> kept[j].index, code |-> kept[j].code,
           description |-> kept[j].description,
           keyword_confidence |-> IF found_api(kept[j]) THEN "0.7" ELSE "0.5"]]

\* what the chat completion of filter_examples_with_gpt does: it raises (or
\* its content is no JSON), or it names the block_index of the relevant blocks
FilterReplies ==
    {[kind |-> "raise", relevant |-> << >>]} \cup
    {[kind |-> "ok", relevant |-> r] : r \in {<< >>, <<0>>, <<1, 0>>, <<2>>}}

\* filter_examples_with_gpt, lines 105-188
filter_examples_with_gpt(use_gpt, code_blocks, reply) ==
    IF ~use_gpt \/ code_blocks = << >> THEN << >>           \* lines 107-108
    ELSE IF reply.kind = "raise"
    THEN filter_examples_by_keywords(code_blocks)           \* lines 186-188
    ELSE LET ok == SelectSeq(reply.relevant,
                             LAMBDA x : 0 <= x /\ x < Len(code_blocks))
         IN [j \in 1..Len(ok) |->
               [index |-> code_blocks[ok[j] + 1].index,
                code |-> code_blocks[ok[j] + 1].code,
                description |-> code_blocks[ok[j] + 1].description,
                gpt_confidence |-> "0.9"]]

\* what json.loads(content) gives in extract_examples_gpt: a JSON value,
\* here a list of examples or an object with one key; or the call raises
ExtractReplies ==
    LET GptExample == [code |-> <<L_chunk>>, output |-> <<L_out>>]
    IN {[kind |-> "raise", value |-> [type |-> "list", items |-> << >>]],
        [kind |-> "ok", value |-> [type |-> "list", items |-> << >>]],
        [kind |-> "ok", value |-> [type |-> "list", items |-> <<GptExample>>]],
        [kind |-> "ok", value |-> [type |-> "dict", items |-> <<"examples">>]]}

\* extract_and_separate_examples with extract_examples_gpt, lines 225-297;
\* what the manual separation returns is a list
extract_and_separate_examples(use_gpt, relevant_blocks, reply) ==
    LET manual == [type |-> "list",
                   items |-> extract_examples_manual(MixedCode(relevant_blocks))]
    IN IF relevant_blocks = << >> THEN [type |-> "list", items |-> << >>]
       ELSE IF ~use_gpt THEN manual
       ELSE IF reply.kind = "raise" THEN manual
       ELSE reply.value

\* process_single_source, lines 414-485
process_single_source(source_info, use_gpt, page, filter_reply, extract_reply) ==
    LET early(method) ==
            [source_url |-> source_info.url,
             api |-> source_info.api,
             package |-> source_info.package,
             change_type |-> source_info.change_type,
             reason |-> source_info.reason,
             has_examples |-> FALSE,
             examples |-> [type |-> "list", items |-> << >>],
             examples_count |-> 0,
             extraction_method |-> method]
        all_code_blocks == extract_all_code_blocks(page)
        relevant_blocks == filter_examples_with_gpt(use_gpt, all_code_blocks, filter_reply)
        separated_examples ==
            extract_and_separate_examples(use_gpt, relevant_blocks, extract_reply)
    IN IF ~page.html THEN early("Crawl Failed")
       ELSE IF all_code_blocks = << >> THEN early("No Code Blocks")
       ELSE IF relevant_blocks = << >> THEN early("No Relevant Examples")
       ELSE [source_url |-> source_info.url,
             api |-> source_info.api,
             package |-> source_info.package,
             change_type |-> source_info.change_type,
             reason |-> source_info.reason,
             has_examples |-> Len(separated_examples.items) > 0,
             examples |-> separated_examples,
             examples_count |-> Len(separated_examples.items),
             extraction_method |-> IF use_gpt THEN "GPT-4o Enhanced"
                                   ELSE "Manual Enhanced",
             total_blocks_found |-> Len(all_code_blocks),
             relevant_blocks_found |-> Len(relevant_blocks)]

\* read_csv_sources, lines 46-63: the rows with a non-blank source
RECURSIVE read_csv_sources(_)
read_csv_sources(rows) ==
    IF rows = << >> THEN << >>
    ELSE (IF strip(Head(rows)) # EMPTY
          THEN <<[url |-> strip(Head(rows)), api |-> "_.chunk", package |-> "lodash",
                  change_type |-> "API Removal", reason |-> "renamed"]>>
          ELSE << >>)
         \o read_csv_sources(Tail(rows))

\* (variant: a result without examples is counted in neither counter)
process_sources_pass_uncounted(p, page, filter_reply, extract_reply) ==
    LET result == process_single_source(p.sources[p.i + 1], p.use_gpt, page,
                                        filter_reply, extract_reply)
        counted ==
            IF result.has_examples
            THEN [p.stats EXCEPT
                    !.with_examples = @ + 1,
                    !.total_examples_extracted = @ + result.examples_count,
                    !.method_used = Append(@, [api |-> result.api,
                                               method |-> result.extraction_method,
                                               examples_count |-> result.examples_count])]
            ELSE p.stats
        preview_raises == /\ p.i < 3
                          /\ result.has_examples
                          /\ result.examples.type = "dict"
    IN [p EXCEPT
          !.all_results = Append(@, result),
          !.pages = Append(@, page),
          !.stats = [counted EXCEPT
                       !.total_blocks_found = @ + DictGet(result, "total_blocks_found", 0),
                       !.relevant_blocks_found =
                           @ + DictGet(result, "relevant_blocks_found", 0)],
          !.i = IF preview_raises THEN @ ELSE @ + 1,
          !.state = IF preview_raises THEN "error" ELSE @]

\* lines 507-545: one pass of `for i, source in enumerate(sources)`. pages
\* is the history of what crawl_page returned. The preview of lines 535-539
\* reads result['examples'][0], which raises KeyError when the examples are
\* a JSON object.
process_sources_pass(p, page, filter_reply, extract_reply) ==
    LET result == process_single_source(p.sources[p.i + 1], p.use_gpt, page,
                                        filter_reply, extract_reply)
        counted ==
            IF result.has_examples
            THEN [p.stats EXCEPT
                    !.with_examples = @ + 1,
                    !.total_examples_extracted = @ + result.examples_count,
                    !.method_used = Append(@, [api |-> result.api,
                                               method |-> result.extraction_method,
                                               examples_count |-> result.examples_count])]
            ELSE [p.stats EXCEPT !.without_examples = @ + 1]
        preview_raises == /\ p.i < 3
                          /\ result.has_examples
                          /\ result.examples.type = "dict"
    IN [p EXCEPT
          !.all_results = Append(@, result),
          !.pages = Append(@, page),
          !.stats = [counted EXCEPT
                       !.total_blocks_found = @ + DictGet(result, "total_blocks_found", 0),
                       !.relevant_blocks_found =
                           @ + DictGet(result, "relevant_blocks_found", 0)],
          !.i = IF preview_raises THEN @ ELSE @ + 1,
          !.state = IF preview_raises THEN "error" ELSE @]

\* process_sources, lines 489-505, on a processor built with use_gpt: the
\* sources are read and cut to the limit, the statistics start at zero
ProcessBegin(use_gpt, rows, limit) ==
    LET read == read_csv_sources(rows)
        sources == IF limit.given /\ limit.n # 0                   \* if limit:
                   THEN SubSeq(read, 1, IF limit.n < Len(read) THEN limit.n
                                        ELSE Len(read))
                   ELSE read
    IN
    /\ processor.state = "idle"
    /\ processor' =
         [state |-> "loop", use_gpt |-> use_gpt, limit |-> limit, read |-> read,
          sources |-> sources, i |-> 0, all_results |-> << >>, pages |-> << >>,
          stats |-> [total_sources |-> Len(sources), with_examples |-> 0,
                     without_examples |-> 0, total_examples_extracted |-> 0,
                     total_blocks_found |-> 0, relevant_blocks_found |-> 0,
                     method_used |-> << >>]]
    /\ UNCHANGED <<files, pc, run, all_urls, futures, yielded, counters, log_at_start,
                   appended, promotions, killed, initialized, csv_lock, llm_call>>

ProcessPass(page, filter_reply, extract_reply) ==
    /\ processor.state = "loop"
    /\ processor.i < Len(processor.sources)
    /\ processor' = process_sources_pass(processor, page, filter_reply, extract_reply)
    /\ UNCHANGED <<files, pc, run, all_urls, futures, yielded, counters, log_at_start,
                   appended, promotions, killed, initialized, csv_lock, llm_call>>

\* lines 547-569: the loop is over, the results are saved and returned
ProcessEnd ==
    /\ processor.state = "loop"
    /\ processor.i = Len(processor.sources)
    /\ processor' = [processor EXCEPT !.state = "done"]
    /\ UNCHANGED <<files, pc, run, all_urls, futures, yielded, counters, log_at_start,
                   appended, promotions, killed, initialized, csv_lock, llm_call>>

\* the rows of the csv file are given by their source cell; the limit
\* argument is None or a number of sources
NextProcessor ==
    \/ \E use_gpt \in BOOLEAN,
          rows \in SeqsUpTo({<<" ">>, <<"u1">>, <<"u2", " ">>}, MaxSources),
          limit \in {[given |-> FALSE, n |-> 0]} \cup
                    {[given |-> TRUE, n |-> n] : n \in 0..(MaxSources + 1)} :
              ProcessBegin(use_gpt, rows, limit)
    \/ \E page \in ProcessorPages, filter_reply \in FilterReplies,
          extract_reply \in ExtractReplies :
              ProcessPass(page, filter_reply, extract_reply)
    \/ ProcessEnd

ProcessorSpec == InitLlm /\ [][NextProcessor]_vars

\* ===================================================================
\* Properties
\* ===================================================================
\* the driver has loaded the pending list of this run and still holds it
Loaded == pc \in {"loaded", "inited", "drain", "promote", "rename", "report", "exit0"}

\* the stripped url of each data row of the manifest, in row order
ManifestUrlSeq ==
    [k \in 1..Len(DataLines(input_csv)) |-> strip(DataLines(input_csv)[k][1])]
NonEmptyRows == {k \in DOMAIN ManifestUrlSeq : ManifestUrlSeq[k] # EMPTY}
ManifestUrls == {ManifestUrlSeq[k] : k \in NonEmptyRows}

\* the data rows of a log or artifact, read by position: column 2 is url and
\* column 4 is crawl_status
RowsWith(file, u, status) ==
    {j \in 2..Len(file.lines) : file.lines[j][2] = u /\ file.lines[j][4] = status}
RowsFor(file, u) == {j \in 2..Len(file.lines) : file.lines[j][2] = u}
IsPending(u, row_num) ==
    \E p \in 1..Len(all_urls) : all_urls[p] = [url |-> u, original_row_num |-> row_num]

\* the manifest holds N distinct non-empty urls
DistinctManifest ==
    /\ NonEmptyRows = DOMAIN ManifestUrlSeq
    /\ Cardinality(ManifestUrls) = Len(ManifestUrlSeq)
\* the log this run started from holds nothing but one success row for each
\* of k manifest urls
OnlySuccessRows(log) ==
    /\ \A j \in 2..Len(log.lines) :
          /\ log.lines[j][4] = SUCCESS
          /\ log.lines[j][2] \in ManifestUrls
    /\ \A u \in ManifestUrls : Cardinality(RowsFor(log, u)) <= 1
DataRowCount(file) == IF file.lines = << >> THEN 0 ELSE Len(file.lines) - 1

\* the appends this run made for future i
AppendsOf(i) == {k \in 1..Len(appended) : appended[k][1] = i}

\* C1: for a manifest of N distinct non-empty urls and a log that held
\* success rows for k of them, N - k work items are submitted, and the
\* promoted artifact holds N data rows, one per manifest url.
C1_IdempotentResumption ==
    (Loaded /\ DistinctManifest /\ OnlySuccessRows(log_at_start)) =>
        /\ pc \in {"drain", "promote", "rename", "report"} =>
              Len(futures) = Len(ManifestUrlSeq) - DataRowCount(log_at_start)
        /\ promotions > 0 =>
              /\ DataRowCount(output_csv) = Len(ManifestUrlSeq)
              /\ \A u \in ManifestUrls : Cardinality(RowsFor(output_csv, u)) = 1

\* C2: no two data rows of a promoted artifact share a url.
C2_OneRowPerUrl ==
    promotions > 0 =>
        \A j1, j2 \in 2..Len(output_csv.lines) :
            output_csv.lines[j1][2] = output_csv.lines[j2][2] => j1 = j2

\* C3: load_urls_from_csv returns the manifest entry of row k (row number
\* k + 1) as pending if and only if its stripped url is not empty and the
\* durable log it read holds no success row with that url; nothing else is
\* pending, and only pending entries are submitted.
C3_PendingIffNotCompleted ==
    Loaded =>
        /\ \A k \in DOMAIN ManifestUrlSeq :
              IsPending(ManifestUrlSeq[k], k + 1)
                 <=> /\ ManifestUrlSeq[k] # EMPTY
                     /\ RowsWith(log_at_start, ManifestUrlSeq[k], SUCCESS) = {}
        /\ \A p \in 1..Len(all_urls) :
              /\ all_urls[p].original_row_num - 1 \in DOMAIN ManifestUrlSeq
              /\ all_urls[p].url = ManifestUrlSeq[all_urls[p].original_row_num - 1]
        /\ Len(futures) <= Len(all_urls)

\* a url whose only log rows are failed is pending again while a url with a
\* success row is skipped
C3_Witness ==
    /\ Loaded
    /\ \E p \in 1..Len(all_urls) :
          /\ RowsWith(log_at_start, all_urls[p].url, FAILED) # {}
          /\ RowsWith(log_at_start, all_urls[p].url, SUCCESS) = {}
    /\ \E k \in NonEmptyRows :
          /\ RowsWith(log_at_start, ManifestUrlSeq[k], SUCCESS) # {}
          /\ ~IsPending(ManifestUrlSeq[k], k + 1)

C5_CrashRecovery ==
    (killed.was /\ Loaded) =>
        /\ \A k \in NonEmptyRows :
              IsPending(ManifestUrlSeq[k], k + 1)
                 <=> RowsWith(killed.log, ManifestUrlSeq[k], SUCCESS) = {}
        /\ \A i \in DOMAIN futures :
              RowsWith(killed.log, all_urls[i].url, SUCCESS) = {}

\* a restart after a kill that skips one url and extracts another one again
C5_Witness ==
    /\ killed.was
    /\ pc = "drain"
    /\ \E k \in NonEmptyRows :
          /\ RowsWith(killed.log, ManifestUrlSeq[k], SUCCESS) # {}
          /\ ~IsPending(ManifestUrlSeq[k], k + 1)
    /\ \E i \in DOMAIN futures :
          /\ futures[i].calls > 0
          /\ RowsWith(killed.log, all_urls[i].url, FAILED) # {}

\* C6: the file at the final path changes only by the removal that opens a
\* promotion or by the rename of a log that is complete: every work item of
\* the run was submitted, has returned and has had its row appended. No
\* append and no kill changes the file at the final path.
C6_PromotionStep ==
    output_csv' # output_csv =>
        \/ /\ ~output_csv'.exists
           /\ pc = "promote"
           /\ temp_csv' = temp_csv
        \/ /\ output_csv' = temp_csv
           /\ temp_csv.exists
           /\ ~temp_csv'.exists
           /\ Len(futures) = Len(all_urls)
           /\ \A i \in DOMAIN futures :
                 futures[i].state = "finished" /\ Cardinality(AppendsOf(i)) = 1
\* C6: every step of every run, kills included, is such a step: the final
\* path never holds a log that is still being appended to.
C6_AtomicPromotion == [][C6_PromotionStep]_vars

\* the artifact of an earlier run is at the final path while the log of the
\* current run has some, but not all, of its rows
C6_Witness ==
    /\ pc = "drain"
    /\ output_csv.exists
    /\ appended # << >>
    /\ yielded # DOMAIN futures
    /\ output_csv # temp_csv

\* C7: never more than MAX_WORKERS invocations of crawl_single_api are in
\* progress, whatever the number of pending work items.
C7_BoundedConcurrency == Cardinality(Running(futures)) <= MAX_WORKERS

\* all the workers are busy while a work item waits in the queue
C7_Witness ==
    /\ Cardinality(Running(futures)) = MAX_WORKERS
    /\ \E i \in DOMAIN futures : futures[i].state = "queued"

\* C8: the row appended for a task whose extraction ran for longer than the
\* per-task timeout is a failed record with the error message of the
\* timeout branch of the loop.
C8_TimeoutBecomesFailedRecord ==
    \A k \in 1..Len(appended) :
        futures[appended[k][1]].overran =>
            /\ appended[k][2][4] = FAILED
            /\ appended[k][2][5] = error_result(all_urls[appended[k][1]], EMPTY).error_msg

\* C9: the result of every task that finishes is eventually appended to the
\* durable log, also when another task never finishes.
C9_FinishedIsDrained ==
    \A i \in 1..MaxManifest :
        (i \in DOMAIN futures /\ futures[i].state = "finished")
            ~> (i \in DOMAIN futures /\ AppendsOf(i) # {})

\* the row of a later submitted task is in the log while an earlier one hangs
C9_Witness ==
    \E i, j \in DOMAIN futures :
        /\ i < j
        /\ futures[i].state = "hung"
        /\ AppendsOf(j) # {}
        /\ temp_csv.lines[Len(temp_csv.lines)] = FilteredResult(futures[j].result)

C11_SuccessShortCircuit ==
    \A i \in DOMAIN futures :
        LET t == futures[i]
        IN /\ t.result.crawl_status = SUCCESS =>
                 /\ t.state = "finished"
                 /\ t.result.error_msg = EMPTY
                 /\ t.calls = Len(t.errors) + 1
                 /\ t.calls \in 1..MAX_RETRIES
           /\ t.calls > Len(t.errors) =>
                 t.state = "finished" /\ t.result.crawl_status = SUCCESS

\* an invocation that succeeded at its second attempt, the first one having
\* failed and set error_msg
C11_Witness ==
    \E i \in DOMAIN futures :
        /\ futures[i].state = "finished"
        /\ futures[i].result.crawl_status = SUCCESS
        /\ futures[i].calls = 2
        /\ futures[i].errors = <<ErrorText(RaiseReply)>>

\* C12: for a running invocation, an attempt whose reply is empty, blank or
\* not valid JSON never gives crawl_status success; it is one more call and
\* one more failed attempt, and the invocation goes on to the next attempt
\* when one remains and returns failed when none does.
C12_EmptyOrUnparsableIsRetryable ==
    \A i \in DOMAIN futures :
        futures[i].state = "running" =>
            \A r \in BlankStrings \cup GarbageStrings :
                LET t == futures[i]
                    u == crawl_attempt(t, ReplyOf(r))
                IN /\ ReplyOf(r) \in AllReplies
                   /\ u.result.crawl_status = FAILED
                   /\ u.calls = t.calls + 1
                   /\ u.errors = Append(t.errors, ErrorText(ReplyOf(r)))
                   /\ u.result.error_msg # EMPTY
                   /\ u.state = IF t.calls + 1 < MAX_RETRIES THEN "running"
                                ELSE "finished"

\* an invocation that is about to make its second attempt after a blank
\* reply, and one that returned failed after a blank and an unparsable reply
C12_Witness ==
    /\ \E i \in DOMAIN futures :
          /\ futures[i].state = "running"
          /\ futures[i].errors = <<ErrorText(ReplyOf(<<" ", " ">>))>>
    /\ \E i \in DOMAIN futures :
          /\ futures[i].state = "finished"
          /\ futures[i].result.crawl_status = FAILED
          /\ futures[i].errors =
                <<ErrorText(ReplyOf(<<" ", " ">>)), ErrorText(ReplyOf(<<" ", "not json">>))>>

\* C13: an invocation of crawl_single_api during which the page was never
\* fetched (every read_webpage ended in a timeout or a request error) has
\* made MAX_RETRIES attempts when it returns, and returns crawl_status failed.
C13_UnfetchedPageIsFailed ==
    \A i \in DOMAIN futures :
        (futures[i].state = "finished" /\ ~futures[i].fault.raised
            /\ futures[i].fetched = 0) =>
            /\ futures[i].calls = MAX_RETRIES
            /\ futures[i].result.crawl_status = FAILED

\* the record the loop has for future i when it writes its row
RecordOf(i) ==
    IF futures[i].fault.raised
    THEN error_result(all_urls[i], futures[i].fault.text)
    ELSE futures[i].result

\* C14: when future.result raises the exception a task ended with, the loop
\* appends exactly one row for that work item: a failed record with the
\* work item's url and original_row_num and the exception in error_msg; it
\* counts one failure, and the run still appends one row for every other
\* work item and promotes the log with all of them.
C14_ExecutorFaultContained ==
    /\ \A k \in 1..Len(appended) :
          LET i == appended[k][1]
          IN futures[i].fault.raised =>
                /\ appended[k][2][1] = IntToStr(all_urls[i].original_row_num)
                /\ appended[k][2][2] = all_urls[i].url
                /\ appended[k][2][4] = FAILED
                /\ appended[k][2][5] = <<"thread exception: ">> \o futures[i].fault.text
    /\ \A i \in DOMAIN futures : Cardinality(AppendsOf(i)) <= 1
    /\ fail_count >=
          Cardinality({i \in DOMAIN futures : futures[i].fault.raised /\ AppendsOf(i) # {}})
    /\ (promotions > 0 /\ all_urls # << >>) =>
          /\ \A i \in DOMAIN futures : Cardinality(AppendsOf(i)) = 1
          /\ output_csv.lines =
                <<HeaderLine(get_csv_columns)>> \o [k \in 1..Len(appended) |-> appended[k][2]]

\* a promoted run in which the row of a faulted task was appended first and
\* the success row of the other task after it
C14_Witness ==
    /\ promotions > 0
    /\ Len(appended) = 2
    /\ futures[appended[1][1]].fault.raised
    /\ ~futures[appended[2][1]].fault.raised
    /\ output_csv.lines[3][4] = SUCCESS
    /\ fail_count = 1

\* C15: when load_urls_from_csv returned no work item and a durable log
\* existed, the driver exits with that log at the final path (whatever was
\* there before) and no log left at the temp path, and it has submitted
\* nothing to the executor.
C15_EmptyPendingPromotes ==
    (pc = "exit0" /\ all_urls = << >> /\ log_at_start.exists) =>
        /\ futures = << >>
        /\ output_csv = log_at_start
        /\ ~temp_csv.exists

\* C16: when the driver exits normally from a run that had a durable log or
\* a work item, the log was moved to the final path exactly once in that
\* run, after the last append: the file at the final path ends with the
\* rows the run appended.
C16_PromotedOnceOnCompletion ==
    (pc = "exit0" /\ (log_at_start.exists \/ all_urls # << >>)) =>
        /\ promotions = 1
        /\ Len(output_csv.lines) > Len(appended)
        /\ \A k \in 1..Len(appended) :
              output_csv.lines[Len(output_csv.lines) - Len(appended) + k] = appended[k][2]

\* s is an initial segment of t
IsPrefix(s, t) == Len(s) <= Len(t) /\ SubSeq(t, 1, Len(s)) = s

\* C17: the call of init_temp_csv creates the log as the header row alone
\* when there is no log and leaves an existing log as it is; an existing
\* log only ever grows at its end, and it leaves the temp path only by
\* becoming, unchanged, the file at the final path.
C17_LogStep ==
    /\ (pc = "loaded" /\ pc' = "inited") =>
          temp_csv' = IF temp_csv.exists THEN temp_csv
                      ELSE FileOf(<<[k \in 1..14 |-> <<get_csv_columns[k]>>]>>)
    /\ (temp_csv.exists /\ temp_csv'.exists) => IsPrefix(temp_csv.lines, temp_csv'.lines)
    /\ (temp_csv.exists /\ ~temp_csv'.exists) => output_csv' = temp_csv
\* C17: every step is such a step, and so the rows an earlier, killed run
\* had appended are still there, in the same order, in the log of the later
\* runs and in the file they promote.
C17_LogNeverTruncated ==
    /\ [][C17_LogStep]_vars
    /\ [](killed.was =>
            /\ temp_csv.exists => IsPrefix(killed.log.lines, temp_csv.lines)
            /\ promotions > 0 => IsPrefix(killed.log.lines, output_csv.lines))

\* a run found the log of a killed run with a row in it, initialized,
\* appended a row of its own and promoted
C17_Witness ==
    /\ killed.was
    /\ Len(killed.log.lines) = 2
    /\ initialized
    /\ Len(appended) = 1
    /\ promotions > 0
    /\ Len(output_csv.lines) = 3

\* C18: a row is appended only in a run in which init_temp_csv has already
\* run, and the log then exists with its header row; also in a run that
\* found the log of a killed run.
C18_AppendStep ==
    Len(appended') > Len(appended) =>
        /\ initialized
        /\ temp_csv.exists
        /\ temp_csv.lines # << >>
        /\ Head(temp_csv.lines) = HeaderLine(get_csv_columns)
\* C18: every step of every run is such a step.
C18_InitBeforeAppend == [][C18_AppendStep]_vars

\* a row is appended in a run that found the log of a killed run
C18_Witness ==
    /\ killed.was
    /\ killed.log.exists
    /\ log_at_start = killed.log
    /\ pc = "drain"
    /\ appended # << >>

\* C19: an existing log changes only inside the critical section, by the one
\* thread that holds csv_lock, and by exactly one row per call of
\* write_result_to_csv, while the worker threads run their attempts.
C19_WriteStep ==
    (temp_csv.exists /\ temp_csv'.exists /\ temp_csv' # temp_csv) =>
        /\ csv_lock.holders = {"main"}
        /\ ~csv_lock.written
        /\ Len(temp_csv'.lines) = Len(temp_csv.lines) + 1
        /\ temp_csv'.lines[Len(temp_csv'.lines)] = FilteredResult(RecordOf(csv_lock.future))
\* C19: at most one thread is inside the critical section at any instant;
\* the log is its header followed by one whole row for each call made so
\* far, each the row of one record, in the order of the calls.
C19_AppendsExclusive ==
    /\ [][C19_WriteStep]_vars
    /\ [](/\ Cardinality(csv_lock.holders) <= 1
          /\ Len(appended) =
                Cardinality(yielded)
                  - (IF csv_lock.holders # {} /\ ~csv_lock.written THEN 1 ELSE 0)
          /\ temp_csv.exists =>
                /\ Len(temp_csv.lines) = 1 + Len(appended)
                /\ \A k \in 1..Len(appended) :
                      /\ temp_csv.lines[1 + k] = FilteredResult(RecordOf(appended[k][1]))
                      /\ Len(temp_csv.lines[1 + k]) = 14)

\* the driver thread is inside the critical section and has written its
\* row while a worker thread is between two attempts of the other task
C19_Witness ==
    /\ csv_lock.holders = {"main"}
    /\ csv_lock.written
    /\ Len(appended) = 1
    /\ \E j \in DOMAIN futures :
          /\ futures[j].state = "running"
          /\ futures[j].calls = 1

\* C20: the first line of the log and of the promoted file is the 14 column
\* names in their order, and every row has exactly 14 cells; the cell of a
\* column is the record's value for that key, or empty when the record has
\* no such key, and keys of the record outside the 14 leave no trace. This
\* holds for success records, retry-exhausted records and executor-fault
\* records.
C20_SchemaStability ==
    /\ \A file \in {temp_csv, output_csv} :
          file.exists =>
              /\ file.lines[1] =
                    << <<"original_row_num">>, <<"url">>, <<"crawl_time">>,
                       <<"crawl_status">>, <<"error_msg">>, <<"api">>, <<"package">>,
                       <<"language">>, <<"deprecated_in">>, <<"removed_in">>,
                       <<"replaced_by">>, <<"change_type">>, <<"reason">>, <<"source">> >>
              /\ \A j \in 1..Len(file.lines) : Len(file.lines[j]) = 14
    /\ \A k \in 1..Len(appended) :
          LET record == RecordOf(appended[k][1])
              line == appended[k][2]
          IN /\ Len(line) = 14
             /\ line[1] = IntToStr(record.original_row_num)
             /\ \A c \in 2..14 :
                   line[c] = IF get_csv_columns[c] \in DOMAIN record
                             THEN record[get_csv_columns[c]] ELSE EMPTY

\* the promoted file holds the row of a success record that had the key
\* "error", which is not a column, and the row of an executor-fault record
C20_Witness ==
    /\ promotions > 0
    /\ Len(output_csv.lines) = 3
    /\ \E i, j \in DOMAIN futures :
          /\ "error" \in DOMAIN futures[i].result
          /\ futures[i].result.crawl_status = SUCCESS
          /\ AppendsOf(i) # {}
          /\ futures[j].fault.raised
          /\ AppendsOf(j) # {}

\* the manifest is missing or has no url header
BadManifest == ~input_csv.exists \/ \A k \in 1..Len(fieldnames(input_csv)) :
                                       fieldnames(input_csv)[k] # <<"url">>

\* C21: with a manifest that is missing or has no url header the driver
\* goes from its start straight to the exit with non-zero status: it never
\* gets to the pending list, the initialization, the executor or the
\* promotion, no extraction call is made, no task is submitted, and no step
\* creates or changes the durable log or the final artifact.
C21_BadManifestIsFatal ==
    /\ [](BadManifest =>
            /\ pc \in {"start", "exit1", "crashed"}
            /\ futures = << >>
            /\ appended = << >>
            /\ ~initialized
            /\ promotions = 0)
    /\ [](pc = "exit1" => BadManifest)
    /\ [][BadManifest => (temp_csv' = temp_csv /\ output_csv' = output_csv)]_vars

\* the driver has exited with non-zero status on a manifest that exists but
\* has no url header
C21_Witness ==
    /\ pc = "exit1"
    /\ input_csv.exists
    /\ Len(input_csv.lines) = 2
    /\ ~temp_csv.exists
    /\ ~output_csv.exists

\* C22: the step that runs load_urls_from_csv, whether it returns or exits,
\* leaves the durable log, the manifest and the final artifact as they were.
C22_LoadStep ==
    (pc = "start" /\ pc' \in {"loaded", "exit1"}) =>
        /\ temp_csv' = temp_csv
        /\ input_csv' = input_csv
        /\ output_csv' = output_csv
\* C22: every call of load_urls_from_csv is such a step, so the log the
\* driver holds after the call is the log the call has read.
C22_LoadChangesNoFile ==
    /\ [][C22_LoadStep]_vars
    /\ [](pc = "loaded" => temp_csv = log_at_start)

\* load_urls_from_csv has read a log with a data row, and the log is intact
C22_Witness ==
    /\ pc = "loaded"
    /\ log_at_start.exists
    /\ Len(log_at_start.lines) >= 2
    /\ temp_csv = log_at_start
    /\ all_urls # << >>

\* C23: when the append of a task's result fails, the exception is handled
\* by the except branch of the loop: once the loop is done with a work item
\* the log holds a row for it, or the driver has stopped with an uncaught
\* error; a driver that has stopped so never promotes, and a promoted file
\* holds a row for the url of every work item.
C23_FailedAppendNotDropped ==
    /\ \A i \in yielded : AppendsOf(i) # {} \/ pc = "error"
    /\ pc = "error" => promotions = 0
    /\ promotions > 0 =>
          \A i \in DOMAIN futures :
              /\ AppendsOf(i) # {}
              /\ RowsFor(output_csv, all_urls[i].url) # {}

\* a promoted file in which the row of a work item is the one the except
\* branch wrote after the append of the task's result had failed
C23_Witness ==
    /\ promotions > 0
    /\ \E j \in 2..Len(output_csv.lines) :
          /\ output_csv.lines[j][4] = FAILED
          /\ output_csv.lines[j][5] = <<"thread exception: ", "write failed">>

\* C24: every record the loop writes, whether returned by crawl_single_api
\* after any mix of failed and successful attempts or built by the loop for
\* a task that ended with an exception, has crawl_status success or failed,
\* and its error_msg is empty exactly when crawl_status is success.
C24_StatusAndMessageAgree ==
    /\ \A i \in DOMAIN futures :
          (futures[i].state = "finished") =>
              /\ RecordOf(i).crawl_status \in {SUCCESS, FAILED}
              /\ RecordOf(i).error_msg # EMPTY <=> RecordOf(i).crawl_status = FAILED
    /\ \A k \in 1..Len(appended) :
          /\ appended[k][2][4] \in {SUCCESS, FAILED}
          /\ appended[k][2][5] # EMPTY <=> appended[k][2][4] = FAILED

\* the log holds the row of a task that succeeded at its second attempt
\* with a reply that had its own crawl_status and error_msg keys, and the
\* row of a task that ended with an exception
C24_Witness ==
    /\ Len(appended) = 2
    /\ \E i, j \in DOMAIN futures :
          /\ futures[i].calls = 2
          /\ futures[i].result.crawl_status = SUCCESS
          /\ "api" \in DOMAIN futures[i].result
          /\ futures[i].result.api = StatusBody.api
          /\ futures[j].fault.raised

\* C25: in every row written with crawl_status failed, the nine payload
\* columns api, package, language, deprecated_in, removed_in, replaced_by,
\* change_type, reason and source are empty.
C25_FailedRowsHaveNoPayload ==
    \A k \in 1..Len(appended) :
        appended[k][2][4] = FAILED =>
            \A c \in 6..14 : appended[k][2][c] = EMPTY

\* C26: every work item load_urls_from_csv returns carries the number of
\* its manifest row, the i-th data row having number i + 1 whether or not
\* earlier rows were left out, and the numbers of the returned work items
\* are strictly increasing.
C26_RowNumbersKept ==
    Loaded =>
        /\ \A p \in 1..Len(all_urls) :
              \E i \in DOMAIN ManifestUrlSeq :
                  /\ all_urls[p].original_row_num = i + 1
                  /\ all_urls[p].url = strip(input_csv.lines[i + 1][1])
        /\ \A p, q \in 1..Len(all_urls) :
              p < q => all_urls[p].original_row_num < all_urls[q].original_row_num
        /\ \A i \in DOMAIN futures :
              futures[i].state = "queued" =>
                  futures[i].result.original_row_num = all_urls[i].original_row_num

\* the only pending work item is the second data row: the first one was
\* left out because the log holds a success row for it
C26_Witness ==
    /\ Loaded
    /\ Len(all_urls) = 1
    /\ all_urls[1].original_row_num = 3
    /\ RowsWith(log_at_start, ManifestUrlSeq[1], SUCCESS) # {}

\* C27: whatever print fails while the loop handles a drained result, the
\* log gets at most one row for that work item.
C27_OneRowDespitePrintFailure ==
    \A i \in DOMAIN futures : Cardinality(AppendsOf(i)) <= 1

\* C28: a driver that had work items and has promoted the log goes on to
\* print the summary and exits with status zero; it does not end with an
\* uncaught error.
C28_NormalTermination ==
    (all_urls # << >> /\ promotions > 0) => pc \in {"report", "exit0"}

\* some extraction call of the run never returns
SomeTaskHangs == \E i \in DOMAIN futures : futures[i].state = "hung"

C30_RerunAfterCompletion ==
    /\ (pc = "exit0" /\ all_urls # << >>) => ~temp_csv.exists
    /\ (run > 1 /\ ~killed.was /\ Loaded) =>
          /\ ~log_at_start.exists
          /\ \A k \in NonEmptyRows : IsPending(ManifestUrlSeq[k], k + 1)
          /\ Len(all_urls) = Cardinality(NonEmptyRows)
          /\ promotions > 0 =>
                output_csv.lines =
                    <<HeaderLine(get_csv_columns)>>
                    \o [k \in 1..Len(appended) |-> appended[k][2]]

\* the second run has replaced the artifact of the first, in which its url
\* had a success row, by a file with a failed row for that url
C30_Witness ==
    /\ run = 2
    /\ ~killed.was
    /\ promotions > 0
    /\ Len(appended) = 1
    /\ RowsWith(output_csv, all_urls[1].url, FAILED) # {}
    /\ RowsWith(output_csv, all_urls[1].url, SUCCESS) = {}
    /\ futures[1].calls = MAX_RETRIES


\* C31: the record of a finished crawl_single_api call carries the url and
\* the original_row_num it was called with, whatever the extraction client
\* replied, and so does the row appended for it.
C31_RecordKeepsIdentification ==
    /\ \A i \in DOMAIN futures :
          futures[i].state = "finished" =>
              /\ futures[i].result.url = all_urls[i].url
              /\ futures[i].result.original_row_num = all_urls[i].original_row_num
    /\ \A k \in 1..Len(appended) :
          /\ appended[k][2][1] = IntToStr(all_urls[appended[k][1]].original_row_num)
          /\ appended[k][2][2] = all_urls[appended[k][1]].url


\* the run is in or past the executor block
Submitted ==
    \/ pc \in {"drain", "promote", "rename", "report"}
    \/ pc = "exit0" /\ all_urls # << >>
\* the pending entries, and the appends of this run, for the work items of url u
PendingFor(u) == {i \in 1..Len(all_urls) : all_urls[i].url = u}
AppendsFor(u) == {k \in 1..Len(appended) : all_urls[appended[k][1]].url = u}

\* C32: while the driver holds the pending list no step changes it, no step
\* after the submission adds or removes a future, and the step that consumes
\* a completion submits nothing.
C32_RunStep ==
    /\ (Loaded /\ Loaded') => all_urls' = all_urls
    /\ (Submitted /\ Submitted') => Len(futures') = Len(futures)
    /\ yielded' # yielded /\ yielded' # {} => Len(futures') = Len(futures)
\* C32: the executor holds one future per entry of the pending list, each
\* submitted with that entry's arguments, before a completion is consumed;
\* a url that is not completed and stands in m manifest rows has m pending
\* entries, and a run that left the loop has appended m rows for them.
C32_SubmittedExactlyOnce ==
    /\ [][C32_RunStep]_vars
    /\ [](Submitted =>
            /\ Len(futures) = Len(all_urls)
            /\ \A i \in DOMAIN futures :
                  futures[i].state = "queued" => futures[i] = submit(all_urls[i]))
    /\ [](yielded # {} => Len(futures) = Len(all_urls))
    /\ [](Loaded =>
            \A u \in ManifestUrls :
                RowsWith(log_at_start, u, SUCCESS) = {} =>
                    /\ Cardinality(PendingFor(u))
                          = Cardinality({k \in NonEmptyRows : ManifestUrlSeq[k] = u})
                    /\ (Submitted /\ pc # "drain") =>
                          Cardinality(AppendsFor(u)) = Cardinality(PendingFor(u)))

\* a url that stands in two manifest rows was submitted twice and the run
\* has left the loop with two rows appended for it
C32_Witness ==
    /\ pc = "promote"
    /\ Len(all_urls) = 2
    /\ all_urls[1].url = all_urls[2].url
    /\ Len(futures) = 2
    /\ Cardinality(AppendsFor(all_urls[1].url)) = 2


\* the rows a step appends
NewAppends == SubSeq(appended', Len(appended) + 1, Len(appended'))
\* the elements of a sequence
Range(seq) == {seq[k] : k \in DOMAIN seq}

\* C33: a pass of the loop for a task that returned a record, in which that
\* record does not reach the log because write_result_to_csv raised, counts
\* one failure and no success; it either appends the failed record of the
\* except branch for the same work item, after which the work item is
\* pending for the next run unless another row completes its url, or (the
\* second append raised too) appends nothing and ends the driver with the
\* error.
C33_WriteFailureStep ==
    \A i \in DOMAIN futures :
        (/\ i \notin yielded
         /\ i \in yielded'
         /\ ~futures[i].fault.raised
         /\ \/ NewAppends = << >>
            \/ NewAppends[1] # <<i, FilteredResult(futures[i].result)>>) =>
            /\ fail_count' = fail_count + 1
            /\ success_count' = success_count
            /\ IF NewAppends = << >>
               THEN /\ pc' = "error"
                    /\ temp_csv' = temp_csv
               ELSE /\ NewAppends =
                         << <<i, FilteredResult(
                                    error_result(all_urls[i], <<"write failed">>))>> >>
                    /\ temp_csv'.lines = Append(temp_csv.lines, NewAppends[1][2])
                    /\ NewAppends[1][2][2] = all_urls[i].url
                    /\ NewAppends[1][2][4] = FAILED
                    /\ RowsWith(temp_csv, all_urls[i].url, SUCCESS) = {} =>
                          all_urls[i] \in Range(load_urls_from_csv(input_csv, temp_csv'))
\* C33: a driver that an exception of the loop has ended has not promoted,
\* and the durable log is still at its path.
C33_FailedAppendBecomesFailedRow ==
    /\ [][C33_WriteFailureStep]_vars
    /\ [](pc = "error" => (promotions = 0 /\ temp_csv.exists /\ ~output_csv.exists))

\* the loop goes on after a successful extraction was logged as failed
\* because the append of its record raised
C33_Witness ==
    /\ pc = "drain"
    /\ \E k \in 1..Len(appended) :
          /\ futures[appended[k][1]].result.crawl_status = SUCCESS
          /\ appended[k][2][4] = FAILED
          /\ appended[k][2][5] = <<"thread exception: ", "write failed">>
          /\ Cardinality(AppendsOf(appended[k][1])) = 1
    /\ success_count = 0
    /\ fail_count = 1


\* C34: an invocation of crawl_single_api has slept once, for RETRY_DELAY,
\* after each failed attempt j < MAX_RETRIES and at no other time: an
\* invocation whose attempts all failed has slept MAX_RETRIES - 1 times,
\* one that succeeded once for each failure before the success, and a step
\* adds a sleep only together with a failed attempt that is not the last.
C34_SleepStep ==
    \A i \in DOMAIN futures :
        (i \in DOMAIN futures' /\ futures'[i].sleeps # futures[i].sleeps) =>
            /\ futures'[i].sleeps = Append(futures[i].sleeps, RETRY_DELAY)
            /\ Len(futures'[i].errors) = Len(futures[i].errors) + 1
            /\ futures'[i].calls < MAX_RETRIES
            /\ futures'[i].state = "running"
C34_SleepOnlyBetweenAttempts ==
    /\ [][C34_SleepStep]_vars
    /\ [](\A i \in DOMAIN futures :
            /\ \A k \in DOMAIN futures[i].sleeps : futures[i].sleeps[k] = RETRY_DELAY
            /\ Len(futures[i].sleeps)
                  = Cardinality({j \in 1..Len(futures[i].errors) : j < MAX_RETRIES})
            /\ (futures[i].state = "finished"
                  /\ futures[i].result.crawl_status = FAILED) =>
                     Len(futures[i].sleeps) = MAX_RETRIES - 1
            /\ (futures[i].state = "finished"
                  /\ futures[i].result.crawl_status = SUCCESS) =>
                     Len(futures[i].sleeps) = futures[i].calls - 1)

\* one invocation has used up its attempts and another succeeded at its
\* second attempt, each after one sleep
C34_Witness ==
    \E i, j \in DOMAIN futures :
        /\ futures[i].state = "finished"
        /\ futures[i].result.crawl_status = FAILED
        /\ futures[i].calls = MAX_RETRIES
        /\ futures[i].sleeps = <<RETRY_DELAY>>
        /\ futures[j].state = "finished"
        /\ futures[j].result.crawl_status = SUCCESS
        /\ futures[j].calls = 2
        /\ futures[j].sleeps = <<RETRY_DELAY>>


\* an invocation of Visit.llm that has returned or raised
VisitLlmOver == llm_call.state \in {"returned", "raised"} /\ llm_call.tool = "Visit"
\* the bounds and waits of Visit.llm
VisitLlmRetries ==
    (llm_call.state # "idle" /\ llm_call.tool = "Visit") =>
        /\ llm_call.calls <= 10
        /\ llm_call.calls = Len(llm_call.replies)
        /\ \A k \in 1..(llm_call.calls - 1) : ~llm_call.replies[k].ok
        /\ llm_call.sleeps =
              [k \in 1..Cardinality({j \in 1..llm_call.calls :
                                        ~llm_call.replies[j].ok /\ j <= 9})
                 |-> 2 ^ (k - 1)]
        /\ llm_call.state = "returned" =>
              /\ llm_call.replies[llm_call.calls].ok
              /\ llm_call.value = llm_call.replies[llm_call.calls].content
        /\ llm_call.state = "raised" =>
              /\ llm_call.calls = 10
              /\ ~llm_call.replies[10].ok
              /\ llm_call.error = llm_call.replies[10].error
              /\ llm_call.sleeps = <<1, 2, 4, 8, 16, 32, 64, 128, 256>>
        /\ llm_call.state = "running" => llm_call.calls < 10

\* C35 (as stated): Visit.llm makes at most 10 service calls, returns the
\* reply of the first call that succeeds, sleeps 2^k seconds after failed
\* call k = 0..8, re-raises the 10th failure without sleeping, and never
\* returns the empty string.
C35_VisitLlmAsStated ==
    /\ VisitLlmRetries
    /\ (VisitLlmOver /\ llm_call.state = "returned") => llm_call.value # EMPTY

\* C35 (amended): the same bounds, waits and results; the `return ""` after
\* the loop is never reached, and the method returns the empty string only
\* when that is the message content of the call that succeeded.
C35_VisitLlmBackoff ==
    /\ VisitLlmRetries
    /\ (llm_call.state # "idle" /\ llm_call.tool = "Visit") =>
          ~llm_call.fell_through

\* Visit.llm has re-raised the tenth failure, which differs from the first
C35_Witness ==
    /\ VisitLlmOver
    /\ llm_call.state = "raised"
    /\ llm_call.calls = 10
    /\ llm_call.replies[1].error # llm_call.replies[10].error
    /\ llm_call.error = <<"rate limit">>


\* the service calls made so far for invocation i of crawl_single_api
ServiceCallsOf(i) ==
    futures[i].service_calls
      + (IF futures[i].state = "calling" THEN llm_call.calls ELSE 0)
\* str(e) of the failures of the service
ServiceErrors == {r.error : r \in {q \in ServiceReplies : ~q.ok}}
\* the bounds of VisitGPT4o.llm and of the calls made for one invocation
NestedRetries ==
    /\ (llm_call.state # "idle" /\ llm_call.tool = "VisitGPT4o") =>
          /\ llm_call.calls <= 3
          /\ llm_call.calls = Len(llm_call.replies)
          /\ \A k \in 1..(llm_call.calls - 1) : ~llm_call.replies[k].ok
          /\ llm_call.state = "returned" =>
                /\ llm_call.replies[llm_call.calls].ok
                /\ llm_call.value = llm_call.replies[llm_call.calls].content
          /\ llm_call.state = "raised" =>
                /\ llm_call.calls = 3
                /\ llm_call.error = llm_call.replies[3].error
    /\ \A i \in DOMAIN futures :
          /\ ServiceCallsOf(i) <= MAX_RETRIES * 3
          /\ ServiceCallsOf(i) <= futures[i].fetched * 3
          /\ (/\ futures[i].state = "finished"
              /\ futures[i].fetched = MAX_RETRIES
              /\ \A k \in DOMAIN futures[i].errors :
                    futures[i].errors[k] \in ServiceErrors
              /\ Len(futures[i].errors) = MAX_RETRIES) =>
                 ServiceCallsOf(i) = MAX_RETRIES * 3

\* C36 (as stated): VisitGPT4o.llm makes at most 3 service calls, returns
\* the first successful reply or re-raises the third failure and never
\* returns the empty string; one crawl_single_api call makes at most
\* MAX_RETRIES * 3 service calls, and exactly that many when the page is
\* fetched each time and every service call fails.
C36_NestedRetriesAsStated ==
    /\ NestedRetries
    /\ (llm_call.state = "returned" /\ llm_call.tool = "VisitGPT4o") =>
          llm_call.value # EMPTY

\* C36 (amended): the same bounds; the `return ""` after the loop is never
\* reached, and the method returns the empty string only when that is the
\* message content of the call that succeeded.
C36_NestedRetries ==
    /\ NestedRetries
    /\ (llm_call.state # "idle" /\ llm_call.tool = "VisitGPT4o") =>
          ~llm_call.fell_through

\* an invocation whose two attempts both read the page and had all three
\* service calls fail has made six service calls
C36_Witness ==
    \E i \in DOMAIN futures :
        /\ futures[i].state = "finished"
        /\ futures[i].result.crawl_status = FAILED
        /\ futures[i].fetched = MAX_RETRIES
        /\ futures[i].service_calls = 6


\* C37: while no print raises, after each pass of the loop the three
\* counters agree (completed_count = success_count + fail_count), the
\* number of rows appended in this run is completed_count, which is the
\* number of futures handed to the loop and at most total_to_crawl, and
\* equals total_to_crawl once the loop has ended.
C37_CountersAgree ==
    (Submitted /\ pc # "error") =>
        /\ completed_count = success_count + fail_count
        /\ completed_count = Len(appended)
        /\ completed_count = Cardinality(yielded)
        /\ completed_count <= Len(all_urls)
        /\ pc # "drain" => completed_count = Len(all_urls)
        /\ success_count =
              Cardinality({k \in 1..Len(appended) : appended[k][2][4] = SUCCESS})

\* the loop has ended after a success, and a failure recorded by the except
\* branch
C37_Witness ==
    /\ pc = "promote"
    /\ completed_count = 2
    /\ success_count = 1
    /\ fail_count = 1
    /\ \E k \in 1..Len(appended) :
          appended[k][2][5] = <<"thread exception: ", "write failed">>


\* a log or artifact that exists begins with the header row and has no
\* header row among its data rows
OneHeader(file) ==
    file.exists =>
        /\ file.lines # << >>
        /\ file.lines[1] = HeaderLine(get_csv_columns)
        /\ \A j \in 2..Len(file.lines) : file.lines[j] # HeaderLine(get_csv_columns)

\* C38: starting without a log, through runs, kills between operations and
\* restarts, the durable log and the promoted artifact each begin with
\* exactly one header row.
C38_ExactlyOneHeader ==
    /\ OneHeader(temp_csv)
    /\ OneHeader(output_csv)

\* a restarted run has initialised the log a killed run had left and has
\* appended to it
C38_Witness ==
    /\ run = 2
    /\ killed.was
    /\ killed.log.exists
    /\ Len(killed.log.lines) >= 2
    /\ initialized
    /\ appended # << >>
    /\ Len(temp_csv.lines) = Len(killed.log.lines) + Len(appended)


\* the page of the k-th handled source has code blocks that mention the
\* target api, and the manual separation finds examples in them
ManualCase(k) ==
    LET page == processor.pages[k]
        by_keywords == filter_examples_by_keywords(extract_all_code_blocks(page))
    IN /\ page.html
       /\ by_keywords # << >>
       /\ extract_examples_manual(MixedCode(by_keywords)) # << >>

\* C39: a processor built without GPT works in manual mode: for a page whose
\* code blocks mention the target api, process_single_source returns the
\* examples found by keyword filtering and manual separation, with
\* extraction_method 'Manual Enhanced'.
C39_ManualModeReturnsExamples ==
    (processor.state # "idle" /\ ~processor.use_gpt) =>
        \A k \in DOMAIN processor.all_results :
            ManualCase(k) =>
                /\ processor.all_results[k].extraction_method = "Manual Enhanced"
                /\ processor.all_results[k].has_examples

\* no result of any processor carries the method 'Manual Enhanced'
ManualEnhancedNeverReturned ==
    processor.state # "idle" =>
        \A k \in DOMAIN processor.all_results :
            processor.all_results[k].extraction_method # "Manual Enhanced"

\* sources[:n]
FirstSources(read, n) == SubSeq(read, 1, IF n < Len(read) THEN n ELSE Len(read))

\* the sum of examples_count over the results with has_examples
RECURSIVE ExamplesIn(_)
ExamplesIn(results) ==
    IF results = << >> THEN 0
    ELSE (IF Head(results).has_examples THEN Head(results).examples_count ELSE 0)
         + ExamplesIn(Tail(results))

\* one result per handled source, in source order, and the counters agree
\* with the results
ResultsAndCounters ==
    LET handled == Len(processor.all_results)
    IN /\ handled <= Len(processor.sources)
       /\ handled = IF processor.state = "error" THEN processor.i + 1 ELSE processor.i
       /\ processor.state = "done" => handled = Len(processor.sources)
       /\ \A k \in 1..handled :
              /\ processor.all_results[k].source_url = processor.sources[k].url
              /\ processor.all_results[k].has_examples
                    <=> processor.all_results[k].examples_count > 0
       /\ processor.stats.total_sources = Len(processor.sources)
       /\ processor.stats.with_examples + processor.stats.without_examples = handled
       /\ processor.stats.total_examples_extracted = ExamplesIn(processor.all_results)

====
